---- MODULE Spec2Model ----
(***************************************************************************)
(* Job orchestration engine of the scraper service.                        *)
(*                                                                         *)
(* DatabaseJobQueue (lib/jobs/database-queue, found in                     *)
(* src/src/lib/auth/middleware.ts lines 876-1258), JobProcessor            *)
(* (src/unnamed/part_011) and the job routes that write the scrapeJob      *)
(* table.  Every `await prisma...` is one step: the awaited database       *)
(* operation takes effect and the JavaScript continuation runs to the next *)
(* await.  Steps of different async calls interleave freely, which is what *)
(* the single-threaded event loop allows.                                  *)
(*                                                                         *)
(* Time is counted in ticks of ten minutes, the stall threshold of the     *)
(* reaper (middleware.ts:1219).                                            *)
(*                                                                         *)
(* RetryHandler (src/src/lib/scraper/core/retry-handler.ts): one           *)
(* executeWithRetry call, a step per settled await, and the closure of     *)
(* createCircuitBreaker with several execute calls in flight.  Retry       *)
(* delays are counted in units of 100 ms, the breaker's clock in reset     *)
(* timeouts.                                                               *)
(*                                                                         *)
(* RateLimiter (scraper/utils/rate-limiter.ts) with concurrent wait()      *)
(* calls; ProxyRotator (scraper/utils/proxy-rotation.ts) with its callers, *)
(* its periodic health check and the probes in flight; DataProcessor       *)
(* (scraper/core/browser-manager.ts lines 123-582), whose calls are        *)
(* synchronous; WebhookManager (webhooks/webhook-manager.ts) with its      *)
(* delivery-queue processor, overlapping runs of its retry timer and the   *)
(* sends in flight, time counted in units of 5 s.                          *)
(* The queue's addJob, processQueue and completeJob call the manager's     *)
(* emitEvent for jobs that have webhooks enabled.  HMAC-SHA256 is a        *)
(* collision-free function of secret and payload.                          *)
(*                                                                         *)
(* ConcurrentScraper (scraper/core/concurrent-scraper.ts): one             *)
(* scrapeConcurrently call, its p-queue and its browser pools.             *)
(***************************************************************************)
EXTENDS Integers, Sequences, FiniteSets, TLC

\* ---------------------------------------------------------------- bounds
MaxJobs == 3          \* rows ever created in the scrapeJob table
MaxTime == 2          \* last clock tick explored
MaxCap == 2           \* largest maxConcurrentJobs a queue is built with
MaxRetries == 1       \* PATCH retry requests that reach their update
MaxCancels == 1       \* cancelJob calls made
MaxRetryLimit == 3    \* largest maxRetries an executeWithRetry call is given
MaxFailuresLimit == 2 \* largest maxFailures a circuit breaker is created with
MaxCalls == 2         \* execute calls in flight on one breaker
MaxClock == 4         \* last breaker clock tick explored
MaxRequestsLimit == 2 \* largest maxRequests a rate limiter is built with
MaxWaits == 4         \* wait() calls made on one rate limiter
MaxCallers == 2       \* callers of wait() at one time
MaxLimiterTime == 4   \* last rate limiter clock tick explored
MaxProxies == 2       \* largest proxy pool a rotator is built with
MaxProxyFailures == 2 \* largest maxFailures a proxy pool is given
MaxResults == 2       \* recordProxyResult calls made on one rotator
MaxProxyTime == 2     \* last proxy rotator clock tick explored
MaxProcessed == 2     \* records one data processor is given between resets
MaxIdLen == 2         \* longest raw listing id
MaxEndpoints == 1     \* webhook endpoints added
MaxDeliveries == 2    \* webhook deliveries created when endpoints answer freely
MaxFailingDeliveries == 3 \* deliveries created when no endpoint answers 2xx
MaxRuns == 3          \* processRetryQueue runs suspended at one time
MaxUpdates == 2       \* updateEndpoint calls made
MaxWebhookTime == 162 \* last webhook clock value explored, in units of 5 s
MaxScrapeJobs == 3    \* filters handed to one scrapeConcurrently call
MaxConcurrency == 2   \* largest config.maxConcurrency
MaxBrowsers == 2      \* largest config.maxBrowsers
MaxProgressInFlight == 1 \* un-awaited progress updates in flight per job
MaxSubscribers == 2   \* endpoints added next to a job queue
MaxNotifiedJobs == 1  \* jobs submitted to a queue that has endpoints

\* ------------------------------------------------------------- constants
StallTimeout == 1     \* 10 * 60 * 1000 ms, in ten-minute ticks

JobIds == 1..MaxJobs
NoJob == 0
Null == -1

Priorities == {"LOW", "NORMAL", "HIGH"}
Statuses == {"PENDING", "PROCESSING", "COMPLETED", "FAILED", "CANCELLED"}
Absent == "ABSENT"    \* findUnique returns null: the row does not exist

ErrNone == "none"
ErrStalled == "Job timed out (stalled for more than 10 minutes)"
ErrExec == "execution error"

Phases == {"init", "scrape", "caught", "progress"}

\* --------------------------------------------- data processor: constants
\* A string is the sequence of its characters; the empty string and an
\* absent field are both <<>>, as both are falsy.
IdChars == {"a", "A", "#"}
WordOrDash == {"a", "A"}
NoString == <<>>

ZeroStats ==
  [totalProcessed |-> 0, successful |-> 0, failed |-> 0, warnings |-> 0,
   duplicates |-> 0]

DuplicateError == "Duplicate listing ID detected"
Warnings == {"Industry not specified", "Description not available"}

\* the shapes of URL extractIdFromUrl looks for; any other matches none
UrlPatterns == {"/business/(\\d+)-", "/listing/(\\d+)", "/(\\d+)/business",
                "id=(\\d+)"}
NoUrl == [pattern |-> "none", digits |-> NoString]

Void == [void |-> TRUE]

\* ------------------------------------------------- webhooks: constants
\* Times are counted in units of 5 s.
MAX_RETRY_ATTEMPTS == 5
RETRY_DELAYS == <<1, 6, 24, 120, 720>>
RetryPeriod == 6
FailureCeiling == 10

NoDelivery == 0
QueueProcessor == 0
RetryRuns == 1..MaxRuns
Processors == {QueueProcessor} \cup RetryRuns
NotAwaiting == [delivery |-> NoDelivery, mayOutlast |-> FALSE]
DeliveryStatuses == {"pending", "retry", "delivered", "failed"}
\* the event types the job queue emits (WebhookEventTypes)
JOB_CREATED == "job.created"
JOB_STARTED == "job.started"
JOB_COMPLETED == "job.completed"
JOB_FAILED == "job.failed"
EventTypes == {JOB_CREATED, JOB_STARTED, JOB_COMPLETED, JOB_FAILED}
ScrapeJobs == 1..MaxScrapeJobs
NoPage == [pool |-> 0, page |-> Null]
NoTask == [pc |-> "none", held |-> NoPage, acquired |-> 0, released |-> 0]
\* the browser pools p-queue's concurrency allows for each
PoolsFactor == 3
\* the events arrays endpoints are registered with
Subscriptions == {{JOB_COMPLETED}, {JOB_STARTED, JOB_FAILED}}

\* --------------------------------------------- retry handler: constants
\* Delays are counted in units of 100 ms.
ErrorTypes == {"network", "timeout", "captcha", "blocked", "rate_limited",
               "parsing", "unknown"}

DefaultRetryableErrors ==
  {"net::ERR_NETWORK_CHANGED", "net::ERR_CONNECTION_RESET",
   "net::ERR_CONNECTION_REFUSED", "net::ERR_TIMED_OUT", "TimeoutError",
   "ProtocolError"}

DefaultConfig ==
  [maxRetries |-> 3, baseDelay |-> 10, maxDelay |-> 300,
   backoffMultiplier |-> 2, retryableErrors |-> DefaultRetryableErrors]

\* An error message is known by what String.includes finds in it:
\* lower, the fragments classifyError looks for in message.toLowerCase(),
\* and exact, the configured patterns found in the message as thrown.
Msg(lower, exact) == [lower |-> lower, exact |-> exact]

NoError == Msg({"<none>"}, {})

ErrorMessages ==
  { Msg({"timeout"}, {}),                  \* 'Navigation timeout of 30000 ms exceeded'
    Msg({"timeout", "selector"}, {"TimeoutError"}),
                                           \* 'TimeoutError: waiting for selector'
    Msg({"connection", "net::err"}, {"net::ERR_CONNECTION_RESET"}),
                                           \* 'net::ERR_CONNECTION_RESET at ...'
    Msg({"captcha"}, {"Captcha"}),         \* 'Captcha detected on page'
    Msg({"access denied"}, {}),            \* 'Page error detected: Access Denied'
    Msg({"rate limit"}, {}),               \* 'Rate limiting detected: Rate limit exceeded...'
    Msg({"too many requests"}, {}),        \* 'Too many requests'
    Msg({"429"}, {}),                      \* 'Request failed with status 429'
    Msg({"parse"}, {}),                    \* 'Failed to parse listing'
    Msg({"selector"}, {"ProtocolError"}),  \* 'ProtocolError: DOM.querySelector failed'
    Msg({}, {}) }                          \* 'Something went wrong'

NoResult == [success |-> FALSE, error |-> NoError, attempts |-> 0]

\* ------------------------------------------- circuit breaker: constants
ResetTimeout == 1     \* resetTimeout, 60000 ms, in breaker clock ticks
CallSlots == 1..MaxCalls
NoCall == 0

\* ---------------------------------------------- rate limiter: constants
WindowMs == 2         \* windowMs, 60000 ms, in ticks of 30 s
Callers == 1..MaxCallers
Idle == [pc |-> "idle", now |-> 0, wakeAt |-> 0]

\* -------------------------------------------- proxy rotator: constants
CooldownMs == 1       \* cooldownMs, 300000 ms, in ticks of 5 min
ResponseTime == 10    \* the response time callers report, in units of 100 ms
NoProxy == 0          \* getNextProxy has not returned yet
Strategies == {"round-robin", "random", "sticky", "health-based"}

FreshHealth ==
  [isHealthy |-> TRUE, failures |-> 0, lastFailure |-> Null,
   avgResponseTime |-> 0, totalRequests |-> 0, successfulRequests |-> 0]

NoPool == [proxies |-> 0, enabled |-> FALSE, rotationStrategy |-> "round-robin",
           maxFailures |-> 1]

VARIABLES
  now,                \* Date.now(), in ticks
  maxConcurrentJobs,  \* DatabaseJobQueue.maxConcurrentJobs
  scrapeJob,          \* the scrapeJob table: id -> row
  processing,         \* DatabaseJobQueue.processing
  currentJobs,        \* DatabaseJobQueue.currentJobs
  pqPc,               \* position of the running processQueue call
  nextJob,            \* processQueue's local nextJob
  execs,              \* handleJob invocations in flight: id -> phase -> count
  cancelPc,           \* position / result of the cancelJob call
  cancelId,           \* argument of that cancelJob call
  patchPc,            \* position of the PATCH retry request
  patchId,            \* job of that PATCH request
  retries,            \* PATCH retry updates performed
  cancels,            \* cancelJob calls made
  dispatched,         \* ids handed to the processor, in order ('processJob' events)
  \* RetryHandler.executeWithRetry, one call
  rPc,                \* position of the call
  finalConfig,        \* { ...defaultConfig, ...config }
  attempt,            \* the loop variable
  lastError,          \* the last error caught
  delay,              \* argument of the last sleep
  result,             \* the RetryResult returned
  invocations,        \* times operation() was called
  onRetryCalls,       \* times finalConfig.onRetry was called
  sleeps,             \* times this.sleep was called
  thrown,             \* the errors operation() has thrown in this call
  \* the closure of createCircuitBreaker
  clock,              \* Date.now() as the breaker reads it, in reset timeouts
  maxFailures,        \* parameter of createCircuitBreaker
  failures,
  lastFailureTime,
  state,
  inflight,           \* execute calls awaiting operation(): slot -> BOOLEAN
  trial,              \* the call that moved the breaker to half-open
  consecutive,        \* failed operations since the last successful one
  lastCall,           \* how the last execute call began
  \* RateLimiter
  limiterTime,        \* Date.now() as the rate limiter reads it, in ticks
  maxRequests,        \* RateLimiter.maxRequests
  requests,           \* RateLimiter.requests
  waiters,            \* wait() calls: caller -> position, its local now, timer
  returns,            \* the times at which wait() calls returned
  waitCalls,          \* wait() calls made
  \* ProxyRotator
  proxyTime,          \* Date.now() as the rotator reads it, in ticks
  proxyPool,          \* ProxyRotator.proxyPool; proxies is their number
  proxyHealth,        \* ProxyRotator.proxyHealth, in insertion order
  currentProxyIndex,
  isHealthCheckRunning,
  probes,             \* proxies whose testProxyConnection is awaited
  gnPc,               \* position of the getNextProxy call
  lastReturned,       \* what the last getNextProxy call returned
  sweptFirst,         \* whether that call ran a health check of its own
  stayedHealthy,      \* whether that proxy has been healthy ever since
  results,            \* recordProxyResult calls made
  \* DataProcessor
  seenListingIds,     \* DataProcessor.seenListingIds
  stats,              \* DataProcessor.stats
  successIds,         \* bizBuySellId of the successful results since resetStats
  returned,           \* what the last call on the processor returned
  \* WebhookManager
  wNow,               \* Date.now() as the manager reads it, in units of 5 s
  endpoints,          \* WebhookManager.endpoints, in insertion order
  deliveries,         \* every WebhookDelivery created, by number
  deliveryQueue,      \* WebhookManager.deliveryQueue
  retryQueue,         \* WebhookManager.retryQueue
  webhookProcessing,  \* WebhookManager.processing
  awaiting,           \* per processor: the delivery whose sendWebhook it awaits
  readyForRetry,      \* per processRetryQueue run: what is left of its list
  updates,            \* updateEndpoint calls made
  \* ConcurrentScraper
  scPc,               \* position of the scrapeConcurrently call
  browserPools,       \* ConcurrentScraper.browserPools: pages.length and inUse
  concurrency,        \* the PQueue's concurrency
  tasks               \* per executeScrapeJob call: position and page held

qvars == <<now, maxConcurrentJobs, scrapeJob, processing, currentJobs, pqPc,
           nextJob, execs, cancelPc, cancelId, patchPc, patchId, retries,
           cancels, dispatched>>

rvars == <<rPc, finalConfig, attempt, lastError, delay, result, invocations,
           onRetryCalls, sleeps, thrown>>

bvars == <<clock, maxFailures, failures, lastFailureTime, state, inflight,
           trial, consecutive, lastCall>>

lvars == <<limiterTime, maxRequests, requests, waiters, returns, waitCalls>>

pvars == <<proxyTime, proxyPool, proxyHealth, currentProxyIndex,
           isHealthCheckRunning, probes, gnPc, lastReturned, sweptFirst,
           stayedHealthy,
           results>>

dvars == <<seenListingIds, stats, successIds, returned>>

wvars == <<wNow, endpoints, deliveries, deliveryQueue, retryQueue,
           webhookProcessing, awaiting, readyForRetry, updates>>

svars == <<scPc, browserPools, concurrency, tasks>>

vars == <<qvars, rvars, bvars, lvars, pvars, dvars, wvars, svars>>

\* what the steps of one component leave alone
exceptQueue == <<rvars, bvars, lvars, pvars, dvars, wvars, svars>>
exceptRetry == <<qvars, bvars, lvars, pvars, dvars, wvars, svars>>
exceptBreaker == <<qvars, rvars, lvars, pvars, dvars, wvars, svars>>
exceptLimiter == <<qvars, rvars, bvars, pvars, dvars, wvars, svars>>
exceptProxy == <<qvars, rvars, bvars, lvars, dvars, wvars, svars>>
exceptProcessor == <<qvars, rvars, bvars, lvars, pvars, wvars, svars>>
exceptWebhook == <<qvars, rvars, bvars, lvars, pvars, dvars, svars>>
exceptQueueAndWebhook == <<rvars, bvars, lvars, pvars, dvars, svars>>
exceptScraper == <<qvars, rvars, bvars, lvars, pvars, dvars, wvars>>

\* ------------------------------------------------------------ emitEvent
\* attemptDelivery returns without sending
Skips(eps, dl, d) == ~eps[dl[d].endpointId].enabled

\* the loop of processDeliveryQueue up to its next sendWebhook
RECURSIVE DeliveryLoop(_, _, _)
DeliveryLoop(dq, eps, dl) ==
  IF dq = <<>> THEN [deliveryQueue |-> dq, sending |-> NoDelivery]
  ELSE IF Skips(eps, dl, Head(dq)) THEN DeliveryLoop(Tail(dq), eps, dl)
  ELSE [deliveryQueue |-> Tail(dq), sending |-> Head(dq)]

\* processDeliveryQueue's guard: a loop starts unless one is running or the
\* queue is empty
StartsLoopRegardless(flag, dq) == Len(dq) # 0

StartsLoop(flag, dq) == ~(flag \/ Len(dq) = 0)

\* JSON.stringify of a delivery's payload: its fields in order
Stringify(payload) == <<payload.type, payload.data>>

\* createHmac('sha256', secret).update(payload).digest('hex')
HmacSha256Hex(secret, payload) == <<"hmac-sha256", secret, payload>>

\* generateSignature without the 'sha256=' in front
GenerateSignatureBare(payload, secret) == HmacSha256Hex(secret, payload)

\* generateSignature
GenerateSignature(payload, secret) ==
  <<"sha256=", HmacSha256Hex(secret, payload)>>

\* validateSignature
ValidateSignature(payload, signature, secret) ==
  signature = GenerateSignature(payload, secret)

\* emitEvent's filter: the enabled endpoints listening for the type, in the
\* order they were added
RelevantEndpoints(type) ==
  SelectSeq([e \in DOMAIN endpoints |-> e],
            LAMBDA e : endpoints[e].enabled /\ type \in endpoints[e].events)

CreateDelivery(e, type, data) ==
  LET payload == [type |-> type, data |-> data]
  IN  [endpointId |-> e, event |-> type, payload |-> payload,
       signature |-> GenerateSignature(Stringify(payload), endpoints[e].secret),
       status |-> "pending", attempts |-> 0, nextRetry |-> Null]

\* sendWebhook: the body and the X-Webhook-Signature-256 header of the POST
SendWebhook(endpoint, delivery) ==
  LET payload == Stringify(delivery.payload)
      signature == GenerateSignature(payload, endpoint.secret)
  IN  [body |-> payload, signature256 |-> signature]

\* emitEvent({type, data}): one delivery for each relevant endpoint, pushed
\* on the delivery queue, then processDeliveryQueue up to its first
\* sendWebhook
Emit(type, data) ==
  LET relevant == RelevantEndpoints(type)
      created == [i \in DOMAIN relevant |->
                    CreateDelivery(relevant[i], type, data)]
      queued == deliveryQueue \o [i \in DOMAIN relevant |->
                                   Len(deliveries) + i]
      loop == DeliveryLoop(queued, endpoints, deliveries \o created)
  IN  IF relevant = <<>> THEN UNCHANGED wvars
      ELSE /\ deliveries' = deliveries \o created
           /\ IF ~StartsLoop(webhookProcessing, queued)
                THEN /\ deliveryQueue' = queued
                     /\ UNCHANGED <<webhookProcessing, awaiting>>
                ELSE /\ deliveryQueue' = loop.deliveryQueue
                     /\ webhookProcessing' = TRUE
                     /\ awaiting' = [awaiting EXCEPT ![QueueProcessor] =
                                       [delivery |-> loop.sending,
                                        mayOutlast |-> TRUE]]
           /\ UNCHANGED <<wNow, endpoints, retryQueue, readyForRetry, updates>>

\* `if (job.enableWebhooks) await webhookManager.emit...`
EmitIfEnabled(enableWebhooks, type, data) ==
  IF enableWebhooks THEN Emit(type, data) ELSE UNCHANGED wvars

\* ------------------------------------------------------------ the table
NoRow == [status |-> Absent, priority |-> "NORMAL", createdAt |-> Null,
          startedAt |-> Null, updatedAt |-> Null, error |-> ErrNone,
          progress |-> 0, enableWebhooks |-> FALSE]

Exists(j) == scrapeJob[j].status # Absent

Created == {j \in JobIds : Exists(j)}

WithStatus(s) == {j \in JobIds : scrapeJob[j].status = s}

\* enum order of the priority column (schema not among the sources)
PriorityRank(p) == CASE p = "HIGH" -> 3 [] p = "NORMAL" -> 2 [] OTHER -> 1

\* OrderedBefore with the creation time taken newest first
OrderedBeforeNewestFirst(a, b) ==
  \/ PriorityRank(a.priority) > PriorityRank(b.priority)
  \/ /\ PriorityRank(a.priority) = PriorityRank(b.priority)
     /\ a.createdAt > b.createdAt

\* a sorts before b under orderBy [{priority: 'desc'}, {createdAt: 'asc'}]
OrderedBefore(a, b) ==
  \/ PriorityRank(a.priority) > PriorityRank(b.priority)
  \/ /\ PriorityRank(a.priority) = PriorityRank(b.priority)
     /\ a.createdAt < b.createdAt

\* prisma.scrapeJob.findFirst({where: {status: 'PENDING'}, orderBy: ...}):
\* the rows that may come first; rows equal in both keys come in any order
FindFirst(table) ==
  {j \in JobIds : /\ table[j].status = "PENDING"
                  /\ \A k \in JobIds : table[k].status = "PENDING"
                                         => ~OrderedBefore(table[k], table[j])}

\* --------------------------------------------------------- processQueue
\* CanStart without the test of currentJobs.size
CanStartIgnoringCap(proc, cj) == ~proc

\* the guard at the head of processQueue
CanStart(proc, cj) == ~proc /\ Cardinality(cj) < maxConcurrentJobs

\* processQueue() up to its first await, called with the given currentJobs
StartProcessQueue(cj) ==
  IF CanStart(processing, cj)
    THEN /\ processing' = TRUE
         /\ pqPc' = "find"
    ELSE UNCHANGED <<processing, pqPc>>

ExecCount(j) == execs[j]["init"] + execs[j]["scrape"] + execs[j]["caught"]

NoExecs == [j \in JobIds |-> [p \in Phases |-> 0]]

Init ==
  /\ now = 0
  /\ maxConcurrentJobs \in 1..MaxCap
  /\ scrapeJob = [j \in JobIds |-> NoRow]
  /\ processing = FALSE
  /\ currentJobs = {}
  /\ pqPc = "idle"
  /\ nextJob = NoJob
  /\ execs = NoExecs
  /\ cancelPc = "idle"
  /\ cancelId = NoJob
  /\ patchPc = "idle"
  /\ patchId = NoJob
  /\ retries = 0
  /\ cancels = 0
  /\ dispatched = <<>>
  /\ rPc = "idle"
  /\ finalConfig = DefaultConfig
  /\ attempt = 0
  /\ lastError = NoError
  /\ delay = 0
  /\ result = NoResult
  /\ invocations = 0
  /\ onRetryCalls = 0
  /\ sleeps = 0
  /\ thrown = {}
  /\ clock = 0
  /\ maxFailures = Null
  /\ failures = 0
  /\ lastFailureTime = 0
  /\ state = "closed"
  /\ inflight = [c \in CallSlots |-> FALSE]
  /\ trial = NoCall
  /\ consecutive = 0
  /\ lastCall = "none"
  /\ limiterTime = 0
  /\ maxRequests = Null
  /\ requests = <<>>
  /\ waiters = [c \in Callers |-> Idle]
  /\ returns = <<>>
  /\ waitCalls = 0
  /\ proxyTime = 0
  /\ proxyPool = NoPool
  /\ proxyHealth = <<>>
  /\ currentProxyIndex = 0
  /\ isHealthCheckRunning = FALSE
  /\ probes = {}
  /\ gnPc = "none"
  /\ lastReturned = NoProxy
  /\ sweptFirst = FALSE
  /\ stayedHealthy = FALSE
  /\ seenListingIds = {}
  /\ stats = ZeroStats
  /\ successIds = <<>>
  /\ returned = Void
  /\ wNow = 0
  /\ endpoints = <<>>
  /\ deliveries = <<>>
  /\ deliveryQueue = <<>>
  /\ retryQueue = <<>>
  /\ webhookProcessing = FALSE
  /\ awaiting = [p \in Processors |-> NotAwaiting]
  /\ readyForRetry = [r \in RetryRuns |-> <<>>]
  /\ updates = 0
  /\ results = 0
  /\ scPc = "idle"
  /\ browserPools = <<>>
  /\ concurrency = 0
  /\ tasks = [i \in ScrapeJobs |-> NoTask]

\* the clock advances
Tick ==
  /\ now < MaxTime
  /\ now' = now + 1
  /\ UNCHANGED exceptQueue
  /\ UNCHANGED <<maxConcurrentJobs, scrapeJob, processing, currentJobs, pqPc,
                 nextJob, execs, cancelPc, cancelId, patchPc, patchId, retries, cancels,
                 dispatched>>

\* addJob: create the row as PENDING, emit job.created when the job has
\* webhooks enabled, then trigger processQueue
AddJob(p, enableWebhooks) ==
  /\ Cardinality(Created) < MaxJobs
  /\ LET j == Cardinality(Created) + 1 IN
       /\ scrapeJob' = [scrapeJob EXCEPT ![j] =
                          [status |-> "PENDING", priority |-> p,
                           createdAt |-> now, startedAt |-> Null,
                           updatedAt |-> now, error |-> ErrNone,
                           progress |-> 0, enableWebhooks |-> enableWebhooks]]
       /\ EmitIfEnabled(enableWebhooks, JOB_CREATED, j)
  /\ StartProcessQueue(currentJobs)
  /\ UNCHANGED exceptQueueAndWebhook
  /\ UNCHANGED <<now, maxConcurrentJobs, currentJobs, nextJob, execs, cancelPc,
                 cancelId, patchPc, patchId, retries, cancels, dispatched>>

\* the polling interval fires and calls processQueue
PollTimer ==
  /\ CanStart(processing, currentJobs)
  /\ StartProcessQueue(currentJobs)
  /\ UNCHANGED exceptQueue
  /\ UNCHANGED <<now, maxConcurrentJobs, scrapeJob, currentJobs, nextJob, execs,
                 cancelPc, cancelId, patchPc, patchId, retries, cancels, dispatched>>

\* processQueue: findFirst returns; no PENDING row ends the call
ProcessQueueFind ==
  /\ pqPc = "find"
  /\ IF FindFirst(scrapeJob) = {}
       THEN /\ processing' = FALSE
            /\ pqPc' = "idle"
            /\ nextJob' = NoJob
       ELSE /\ \E j \in FindFirst(scrapeJob) : nextJob' = j
            /\ pqPc' = "update"
            /\ UNCHANGED processing
  /\ UNCHANGED exceptQueue
  /\ UNCHANGED <<now, maxConcurrentJobs, scrapeJob, currentJobs, execs, cancelPc,
                 cancelId, patchPc, patchId, retries, cancels, dispatched>>

\* processQueue: the update to PROCESSING lands, the id joins currentJobs,
\* job.started goes to the webhooks of a job that has them enabled,
\* 'processJob' is emitted and handleJob runs to its first await
\* (validatePartial either passes or throws into the catch block)
ProcessQueueUpdate ==
  /\ pqPc = "update"
  /\ scrapeJob' = [scrapeJob EXCEPT ![nextJob].status = "PROCESSING",
                                    ![nextJob].startedAt = now,
                                    ![nextJob].updatedAt = now]
  /\ currentJobs' = currentJobs \cup {nextJob}
  /\ \E ph \in {"init", "caught"} :
       execs' = [execs EXCEPT ![nextJob][ph] = @ + 1]
  /\ dispatched' = Append(dispatched, nextJob)
  /\ EmitIfEnabled(scrapeJob[nextJob].enableWebhooks, JOB_STARTED, nextJob)
  /\ processing' = FALSE
  /\ pqPc' = "idle"
  /\ nextJob' = NoJob
  /\ UNCHANGED exceptQueueAndWebhook
  /\ UNCHANGED <<now, maxConcurrentJobs, cancelPc, cancelId, patchPc, patchId,
                 retries, cancels>>

\* ------------------------------------------------------------ handleJob
\* jobQueue.updateJobProgress(id, progress): one update by id, whatever the
\* row's status
UpdateJobProgress(table, j, pr) ==
  [table EXCEPT ![j].progress = pr, ![j].updatedAt = now]

\* handleJob: `await jobQueue.updateJobProgress(job.id, 5, ...)` lands and
\* the scraper starts
HandleJobStart(j) ==
  /\ execs[j]["init"] > 0
  /\ scrapeJob' = UpdateJobProgress(scrapeJob, j, 5)
  /\ execs' = [execs EXCEPT ![j]["init"] = @ - 1, ![j]["scrape"] = @ + 1]
  /\ UNCHANGED exceptQueue
  /\ UNCHANGED <<now, maxConcurrentJobs, processing, currentJobs, pqPc, nextJob,
                 cancelPc, cancelId, patchPc, patchId, retries, cancels, dispatched>>

\* handleProgress: progress.processed / progress.total as a percentage,
\* never above 95
ProgressPercent(processed, total) ==
  LET pct == (200 * processed + total) \div (2 * total)
  IN  IF pct < 95 THEN pct ELSE 95

\* the scraper reports progress and handleProgress writes it
HandleProgress(j) ==
  /\ execs[j]["scrape"] > 0
  /\ scrapeJob' = UpdateJobProgress(scrapeJob, j, ProgressPercent(1, 2))
  /\ UNCHANGED exceptQueue
  /\ UNCHANGED <<now, maxConcurrentJobs, processing, currentJobs, pqPc, nextJob,
                 execs, cancelPc, cancelId, patchPc, patchId, retries, cancels,
                 dispatched>>

\* Released holding the slot while a delivery is being sent
ReleasedOnceDelivered(cj, j) == IF webhookProcessing THEN cj ELSE cj \ {j}

\* completeJob's this.currentJobs.delete(id), which precedes the webhooks
Released(cj, j) == cj \ {j}

\* the scraper calls config.onProgress without awaiting it: handleProgress
\* runs up to the update inside updateJobProgress, which is now in flight
OnProgress(j) ==
  /\ execs[j]["scrape"] > 0
  /\ execs[j]["progress"] < MaxProgressInFlight
  /\ execs' = [execs EXCEPT ![j]["progress"] = @ + 1]
  /\ UNCHANGED exceptQueue
  /\ UNCHANGED <<now, maxConcurrentJobs, scrapeJob, processing, currentJobs,
                 pqPc, nextJob, cancelPc, cancelId, patchPc, patchId, retries,
                 cancels, dispatched>>

\* the update of an un-awaited handleProgress lands
ProgressUpdateLands(j) ==
  /\ execs[j]["progress"] > 0
  /\ scrapeJob' = UpdateJobProgress(scrapeJob, j, ProgressPercent(1, 2))
  /\ execs' = [execs EXCEPT ![j]["progress"] = @ - 1]
  /\ UNCHANGED exceptQueue
  /\ UNCHANGED <<now, maxConcurrentJobs, processing, currentJobs, pqPc, nextJob,
                 cancelPc, cancelId, patchPc, patchId, retries, cancels,
                 dispatched>>

\* the row completeJob writes: status, progress and, when the result carries
\* one, the error
CompletedRow(row, success) ==
  [row EXCEPT !.status = IF success THEN "COMPLETED" ELSE "FAILED",
              !.progress = IF success THEN 100 ELSE 0,
              !.error = IF success THEN @ ELSE ErrExec,
              !.updatedAt = now]

\* completeJob(id, result) called by handleJob: with success after the
\* scraper returned, without after something threw.  dbOk = FALSE is the
\* update rejecting, which the catch block only logs.  After the update the
\* id leaves currentJobs, job.completed or job.failed goes to the webhooks of
\* a job that has them enabled, and processQueue is triggered.
CompleteJob(j, success, dbOk) ==
  /\ \/ execs[j]["scrape"] > 0 /\ execs' = [execs EXCEPT ![j]["scrape"] = @ - 1]
     \/ /\ ~success
        /\ execs[j]["caught"] > 0
        /\ execs' = [execs EXCEPT ![j]["caught"] = @ - 1]
  /\ IF dbOk
       THEN /\ scrapeJob' = [scrapeJob EXCEPT ![j] = CompletedRow(@, success)]
            /\ currentJobs' = Released(currentJobs, j)
            /\ EmitIfEnabled(scrapeJob[j].enableWebhooks,
                             IF success THEN JOB_COMPLETED ELSE JOB_FAILED, j)
            /\ StartProcessQueue(Released(currentJobs, j))
       ELSE UNCHANGED <<scrapeJob, currentJobs, processing, pqPc, wvars>>
  /\ UNCHANGED exceptQueueAndWebhook
  /\ UNCHANGED <<now, maxConcurrentJobs, nextJob, cancelPc, cancelId, patchPc,
                 patchId, retries, cancels, dispatched>>

\* ------------------------------------------------------------ cancelJob
\* CancelRefused without the test for FAILED
CancelRefusedOnlyCompleted(s) == s \in {Absent, "COMPLETED"}

\* the statuses for which cancelJob gives up after findUnique
CancelRefused(s) == s \in {Absent, "COMPLETED", "FAILED"}

\* cancelJob(id): findUnique returns; a missing, COMPLETED or FAILED job
\* makes the call return false
CancelJobFind(j) ==
  /\ cancelPc # "update"
  /\ cancels < MaxCancels
  /\ cancels' = cancels + 1
  /\ IF CancelRefused(scrapeJob[j].status)
       THEN cancelPc' = "false" /\ cancelId' = NoJob
       ELSE cancelPc' = "update" /\ cancelId' = j
  /\ UNCHANGED exceptQueue
  /\ UNCHANGED <<now, maxConcurrentJobs, scrapeJob, processing, currentJobs,
                 pqPc, nextJob, execs, patchPc, patchId, retries, dispatched>>

\* cancelJob(id): the update to CANCELLED lands, the id leaves currentJobs
\* and the call returns true
CancelJobUpdate ==
  /\ cancelPc = "update"
  /\ scrapeJob' = [scrapeJob EXCEPT ![cancelId].status = "CANCELLED",
                                    ![cancelId].updatedAt = now]
  /\ currentJobs' = currentJobs \ {cancelId}
  /\ cancelPc' = "true"
  /\ cancelId' = NoJob
  /\ UNCHANGED exceptQueue
  /\ UNCHANGED <<now, maxConcurrentJobs, processing, pqPc, nextJob, execs,
                 patchPc, patchId, retries, cancels, dispatched>>

\* ---------------------------------------------------------- PATCH retry
\* PATCH /api/jobs/[id] {action: 'retry'}: findUnique returns; only a FAILED
\* or CANCELLED job goes on to the update
PatchRetryFind(j) ==
  /\ patchPc = "idle"
  /\ retries < MaxRetries
  /\ scrapeJob[j].status \in {"FAILED", "CANCELLED"}
  /\ patchPc' = "update"
  /\ patchId' = j
  /\ UNCHANGED exceptQueue
  /\ UNCHANGED <<now, maxConcurrentJobs, scrapeJob, processing, currentJobs,
                 pqPc, nextJob, execs, cancelPc, cancelId, retries, cancels, dispatched>>

\* PATCH retry: the update back to PENDING lands
PatchRetryUpdate ==
  /\ patchPc = "update"
  /\ scrapeJob' = [scrapeJob EXCEPT ![patchId].status = "PENDING",
                                    ![patchId].error = ErrNone,
                                    ![patchId].startedAt = Null,
                                    ![patchId].updatedAt = now]
  /\ patchPc' = "idle"
  /\ patchId' = NoJob
  /\ retries' = retries + 1
  /\ UNCHANGED exceptQueue
  /\ UNCHANGED <<now, maxConcurrentJobs, processing, currentJobs, pqPc, nextJob,
                 execs, cancelPc, cancelId, cancels, dispatched>>

\* -------------------------------------------------------------- cleanup
\* the where clause of cleanup's updateMany
Stalled(row) ==
  /\ row.status = "PROCESSING"
  /\ row.startedAt # Null
  /\ row.startedAt < now - StallTimeout

\* cleanup(): one updateMany fails every stalled row
Cleanup ==
  /\ \E j \in JobIds : Stalled(scrapeJob[j])
  /\ scrapeJob' = [j \in JobIds |->
                     IF Stalled(scrapeJob[j])
                       THEN [scrapeJob[j] EXCEPT !.status = "FAILED",
                                                 !.error = ErrStalled,
                                                 !.updatedAt = now]
                       ELSE scrapeJob[j]]
  /\ UNCHANGED exceptQueue
  /\ UNCHANGED <<now, maxConcurrentJobs, processing, currentJobs, pqPc, nextJob,
                 execs, cancelPc, cancelId, patchPc, patchId, retries, cancels,
                 dispatched>>

\* --------------------------------------------------------- retry handler
\* String.includes on the lower-cased message
Includes(error, fragment) == fragment \in error.lower

ClassifyError(error) ==
  IF Includes(error, "timeout") \/ Includes(error, "timed out") THEN "timeout"
  ELSE IF \/ Includes(error, "network")
          \/ Includes(error, "connection")
          \/ Includes(error, "net::err") THEN "network"
  ELSE IF Includes(error, "captcha") \/ Includes(error, "recaptcha")
    THEN "captcha"
  ELSE IF \/ Includes(error, "blocked")
          \/ Includes(error, "access denied")
          \/ Includes(error, "403")
          \/ Includes(error, "rate limit") THEN "blocked"
  ELSE IF \/ Includes(error, "rate limit")
          \/ Includes(error, "too many requests")
          \/ Includes(error, "429") THEN "rate_limited"
  ELSE IF \/ Includes(error, "parse")
          \/ Includes(error, "extract")
          \/ Includes(error, "selector") THEN "parsing"
  ELSE "unknown"

IsRetryableError(error, config, errorType) ==
  IF \E pattern \in config.retryableErrors : pattern \in error.exact
    THEN TRUE
    ELSE CASE errorType \in {"network", "timeout", "rate_limited"} -> TRUE
           [] errorType \in {"captcha", "blocked"} -> FALSE
           [] errorType = "parsing" -> FALSE
           [] OTHER -> TRUE

RECURSIVE Pow(_, _)
Pow(b, e) == IF e = 0 THEN 1 ELSE b * Pow(b, e - 1)

Min(a, b) == IF a <= b THEN a ELSE b

ExponentialDelay(n, config) ==
  config.baseDelay * Pow(config.backoffMultiplier, n)

\* Math.random() * 0.1 * exponentialDelay, Math.random() in [0, 1)
Jitters(exponentialDelay) ==
  {0} \cup {j \in 0..exponentialDelay : 10 * j < exponentialDelay}

\* the delays calculateDelay can return
CalculateDelayUncapped(n, config) ==
  {ExponentialDelay(n, config) + j : j \in Jitters(ExponentialDelay(n, config))}

CalculateDelay(n, config) ==
  {Min(ExponentialDelay(n, config) + j, config.maxDelay) :
     j \in Jitters(ExponentialDelay(n, config))}

\* the for loop's condition
LoopContinuesOneShort(a, config) == a <= config.maxRetries

LoopContinues(a, config) == a <= config.maxRetries + 1

\* the return after the loop
FailureResult(config, error) ==
  [success |-> FALSE, error |-> error, attempts |-> config.maxRetries + 1]

\* executeWithRetry is called: the configuration is merged and the loop
\* entered
ExecuteWithRetry(config) ==
  /\ rPc = "idle"
  /\ finalConfig' = [k \in DOMAIN DefaultConfig |->
                       IF k \in DOMAIN config THEN config[k] ELSE DefaultConfig[k]]
  /\ attempt' = 1
  /\ IF LoopContinues(1, finalConfig')
       THEN rPc' = "operation" /\ result' = NoResult
       ELSE rPc' = "done" /\ result' = FailureResult(finalConfig', NoError)
  /\ lastError' = NoError
  /\ invocations' = 0 /\ onRetryCalls' = 0 /\ sleeps' = 0 /\ delay' = 0
  /\ thrown' = {}
  /\ UNCHANGED exceptRetry

\* await operation() resolves
OperationResolves ==
  /\ rPc = "operation"
  /\ invocations' = invocations + 1
  /\ result' = [success |-> TRUE, error |-> NoError, attempts |-> attempt]
  /\ rPc' = "done"
  /\ UNCHANGED <<finalConfig, attempt, lastError, delay, onRetryCalls, sleeps,
                 thrown>>
  /\ UNCHANGED exceptRetry

\* await operation() rejects with error: the catch block, up to the sleep
OperationRejects(error) ==
  /\ rPc = "operation"
  /\ invocations' = invocations + 1
  /\ lastError' = error
  /\ thrown' = thrown \cup {error}
  /\ IF attempt > finalConfig.maxRetries
       THEN /\ rPc' = "done"
            /\ result' = FailureResult(finalConfig, error)
            /\ UNCHANGED <<delay, onRetryCalls, sleeps>>
     ELSE IF ~IsRetryableError(error, finalConfig, ClassifyError(error))
       THEN /\ rPc' = "done"
            /\ result' = FailureResult(finalConfig, error)
            /\ UNCHANGED <<delay, onRetryCalls, sleeps>>
     ELSE /\ delay' \in CalculateDelay(attempt - 1, finalConfig)
          /\ onRetryCalls' = onRetryCalls + 1
          /\ sleeps' = sleeps + 1
          /\ rPc' = "sleep"
          /\ UNCHANGED result
  /\ UNCHANGED <<finalConfig, attempt>>
  /\ UNCHANGED exceptRetry

\* the sleep ends: attempt++ and the loop condition
SleepResolves ==
  /\ rPc = "sleep"
  /\ attempt' = attempt + 1
  /\ IF LoopContinues(attempt', finalConfig)
       THEN rPc' = "operation" /\ UNCHANGED result
       ELSE rPc' = "done" /\ result' = FailureResult(finalConfig, lastError)
  /\ UNCHANGED <<finalConfig, lastError, delay, invocations, onRetryCalls, sleeps,
                 thrown>>
  /\ UNCHANGED exceptRetry

\* the configurations the calls are given
RetryableErrorLists == {DefaultRetryableErrors, {}, {"Captcha"}}

PolicyConfigs ==
  {[maxRetries |-> m, retryableErrors |-> l] :
     m \in 0..MaxRetryLimit, l \in RetryableErrorLists}

BackoffConfigs ==
  {[maxRetries |-> MaxRetryLimit, baseDelay |-> b, backoffMultiplier |-> k,
    maxDelay |-> d] : b \in {0, 5, 10}, k \in {1, 2, 3}, d \in {30, 300}}

\* ------------------------------------------------------- circuit breaker
\* createCircuitBreaker(maxFailures): the closure's variables are set
CreateCircuitBreaker(n) ==
  /\ maxFailures = Null
  /\ maxFailures' = n
  /\ failures' = 0
  /\ lastFailureTime' = 0
  /\ state' = "closed"
  /\ UNCHANGED <<clock, inflight, trial, consecutive, lastCall>>
  /\ UNCHANGED exceptBreaker

\* the breaker's clock advances
BreakerTick ==
  /\ clock < MaxClock
  /\ clock' = clock + 1
  /\ UNCHANGED <<maxFailures, failures, lastFailureTime, state, inflight, trial,
                 consecutive, lastCall>>
  /\ UNCHANGED exceptBreaker

\* the test that moves an open breaker to half-open
ResetDue(st, last) == st = "open" /\ clock - last > ResetTimeout

\* the test that opens the breaker in the catch block
Trips(f) == f >= maxFailures

\* execute(operation) up to its await: the reset test, the rejection, and
\* the call of operation()
Execute(c) ==
  /\ maxFailures # Null
  /\ ~inflight[c]
  /\ LET due == ResetDue(state, lastFailureTime)
         st == IF due THEN "half-open" ELSE state
     IN  /\ state' = st
         /\ failures' = IF due THEN 0 ELSE failures
         /\ IF st = "open"
              THEN /\ lastCall' = "rejected"
                   /\ UNCHANGED <<inflight, trial>>
              ELSE /\ lastCall' = "invoked"
                   /\ inflight' = [inflight EXCEPT ![c] = TRUE]
                   /\ trial' = IF due THEN c ELSE trial
  /\ UNCHANGED <<clock, maxFailures, lastFailureTime, consecutive>>
  /\ UNCHANGED exceptBreaker

\* operation() resolves: the rest of the try block
OperationSucceeds(c) ==
  /\ inflight[c]
  /\ inflight' = [inflight EXCEPT ![c] = FALSE]
  /\ IF state = "half-open"
       THEN state' = "closed" /\ failures' = 0
       ELSE UNCHANGED <<state, failures>>
  /\ trial' = IF trial = c THEN NoCall ELSE trial
  /\ consecutive' = 0
  /\ UNCHANGED <<clock, maxFailures, lastFailureTime, lastCall>>
  /\ UNCHANGED exceptBreaker

\* operation() rejects: the catch block
OperationFails(c) ==
  /\ inflight[c]
  /\ inflight' = [inflight EXCEPT ![c] = FALSE]
  /\ failures' = failures + 1
  /\ lastFailureTime' = clock
  /\ state' = IF Trips(failures') THEN "open" ELSE state
  /\ trial' = IF trial = c THEN NoCall ELSE trial
  /\ consecutive' = Min(consecutive + 1, MaxFailuresLimit + 1)
  /\ UNCHANGED <<clock, maxFailures, lastCall>>
  /\ UNCHANGED exceptBreaker

\* ---------------------------------------------------------- rate limiter
\* new RateLimiter(n, windowMs)
NewRateLimiter(n) ==
  /\ maxRequests = Null
  /\ maxRequests' = n
  /\ requests' = <<>>
  /\ UNCHANGED <<limiterTime, waiters, returns, waitCalls>>
  /\ UNCHANGED exceptLimiter

\* requests.filter(timestamp => now - timestamp < windowMs)
InWindow(reqs, t) == SelectSeq(reqs, LAMBDA ts : t - ts < WindowMs)

\* Math.min(...requests)
Oldest(reqs) ==
  CHOOSE m \in {reqs[i] : i \in DOMAIN reqs} :
    \A i \in DOMAIN reqs : m <= reqs[i]

\* the test that sends a caller to sleep
MustWait(reqs) == Len(reqs) >= maxRequests

\* wait() up to its await: filter, test, and either the timer or the push
Wait(c) ==
  /\ maxRequests # Null
  /\ waiters[c].pc = "idle"
  /\ waitCalls < MaxWaits
  /\ waitCalls' = waitCalls + 1
  /\ LET now1 == limiterTime
         kept == InWindow(requests, now1)
         waitTime == WindowMs - (now1 - Oldest(kept))
     IN  IF MustWait(kept) /\ waitTime > 0
           THEN /\ requests' = kept
                /\ waiters' = [waiters EXCEPT ![c] =
                     [pc |-> "sleeping", now |-> now1, wakeAt |-> now1 + waitTime]]
                /\ UNCHANGED returns
           ELSE /\ requests' = Append(kept, now1)
                /\ returns' = Append(returns, limiterTime)
                /\ UNCHANGED waiters
  /\ UNCHANGED <<limiterTime, maxRequests>>
  /\ UNCHANGED exceptLimiter

\* the timer of a sleeping caller fires: requests.push(now) and return
WaitResumes(c) ==
  /\ waiters[c].pc = "sleeping"
  /\ limiterTime >= waiters[c].wakeAt
  /\ requests' = Append(requests, waiters[c].now)
  /\ returns' = Append(returns, limiterTime)
  /\ waiters' = [waiters EXCEPT ![c] = Idle]
  /\ UNCHANGED <<limiterTime, maxRequests, waitCalls>>
  /\ UNCHANGED exceptLimiter

\* the clock advances; a timer that is due fires first
LimiterTick ==
  /\ limiterTime < MaxLimiterTime
  /\ \A c \in Callers :
       waiters[c].pc = "sleeping" => limiterTime < waiters[c].wakeAt
  /\ limiterTime' = limiterTime + 1
  /\ UNCHANGED <<maxRequests, requests, waiters, returns, waitCalls>>
  /\ UNCHANGED exceptLimiter

\* --------------------------------------------------------- proxy rotator
\* new ProxyRotator(pool): initializeProxyHealth
NewProxyRotator(pool) ==
  /\ gnPc = "none"
  /\ gnPc' = "idle"
  /\ proxyPool' = pool
  /\ proxyHealth' = [p \in 1..pool.proxies |-> FreshHealth]
  /\ UNCHANGED <<proxyTime, currentProxyIndex, isHealthCheckRunning, probes,
                 lastReturned, sweptFirst, stayedHealthy, results>>
  /\ UNCHANGED exceptProxy

\* getHealthyProxies: the healthy proxies in the order of the map
GetHealthyProxies(health) ==
  SelectSeq([p \in DOMAIN health |-> p], LAMBDA p : health[p].isHealthy)

\* success rate as a fraction: numerator and denominator
RateNum(h) == IF h.totalRequests > 0 THEN h.successfulRequests ELSE 0
RateDen(h) == IF h.totalRequests > 0 THEN h.totalRequests ELSE 1

\* the comparator of getHealthBasedProxy puts a strictly before b
SortsBefore(a, b) ==
  \/ RateNum(a) * RateDen(b) > RateNum(b) * RateDen(a)
  \/ /\ RateNum(a) * RateDen(b) = RateNum(b) * RateDen(a)
     /\ a.avgResponseTime < b.avgResponseTime

\* the strategies: the pairs <<proxy, currentProxyIndex afterwards>> each
\* can produce from the healthy list hp
GetRoundRobinProxy(hp, cur) ==
  LET idx == IF cur >= Len(hp) THEN 0 ELSE cur
  IN  {<<hp[idx + 1], idx + 1>>}

GetRandomProxy(hp, cur) == {<<hp[i], cur>> : i \in DOMAIN hp}

\* Array.prototype.sort is stable: the first of the best in list order
GetHealthBasedProxy(hp, cur, health) ==
  LET best == {i \in DOMAIN hp :
                 \A k \in DOMAIN hp : ~SortsBefore(health[hp[k]], health[hp[i]])}
      first == CHOOSE i \in best : \A k \in best : i <= k
  IN  {<<hp[first], cur>>}

GetStickyProxy(hp, cur) ==
  IF cur < Len(hp) THEN {<<hp[cur + 1], cur>>} ELSE GetRoundRobinProxy(hp, cur)

Rotate(hp, cur, health) ==
  CASE proxyPool.rotationStrategy = "round-robin" -> GetRoundRobinProxy(hp, cur)
    [] proxyPool.rotationStrategy = "random" -> GetRandomProxy(hp, cur)
    [] proxyPool.rotationStrategy = "health-based" ->
         GetHealthBasedProxy(hp, cur, health)
    [] proxyPool.rotationStrategy = "sticky" -> GetStickyProxy(hp, cur)

\* performHealthCheck skips an unhealthy proxy whose cooldown has not passed
InCooldown(h) ==
  /\ ~h.isHealthy
  /\ h.lastFailure # Null
  /\ proxyTime - h.lastFailure < CooldownMs

ToProbe == {p \in DOMAIN proxyHealth : ~InCooldown(proxyHealth[p])}

\* getNextProxy up to its return or to the await of its health check
GetNextProxy ==
  /\ gnPc = "idle"
  /\ IF ~proxyPool.enabled \/ proxyPool.proxies = 0
       THEN /\ lastReturned' = Null
            /\ sweptFirst' = FALSE
            /\ UNCHANGED <<currentProxyIndex, isHealthCheckRunning, probes, gnPc>>
     ELSE IF GetHealthyProxies(proxyHealth) = <<>>
       THEN IF isHealthCheckRunning
              THEN \* performHealthCheck returns at once
                   /\ lastReturned' = Null
                   /\ sweptFirst' = FALSE
                   /\ UNCHANGED <<currentProxyIndex, isHealthCheckRunning,
                                  probes, gnPc>>
            ELSE IF ToProbe = {}
              THEN \* every proxy is skipped: the check ends at once
                   /\ lastReturned' = Null
                   /\ sweptFirst' = TRUE
                   /\ UNCHANGED <<currentProxyIndex, isHealthCheckRunning,
                                  probes, gnPc>>
            ELSE /\ isHealthCheckRunning' = TRUE
                 /\ probes' = ToProbe
                 /\ gnPc' = "sweeping"
                 /\ UNCHANGED <<currentProxyIndex, lastReturned, sweptFirst>>
     ELSE /\ \E pick \in Rotate(GetHealthyProxies(proxyHealth),
                                currentProxyIndex, proxyHealth) :
               /\ lastReturned' = pick[1]
               /\ currentProxyIndex' = pick[2]
          /\ sweptFirst' = FALSE
          /\ UNCHANGED <<isHealthCheckRunning, probes, gnPc>>
  /\ stayedHealthy' = (gnPc' = "idle" /\ lastReturned' \in 1..MaxProxies)
  /\ UNCHANGED <<proxyTime, proxyPool, proxyHealth, results>>
  /\ UNCHANGED exceptProxy

\* the interval of startPeriodicHealthCheck fires: performHealthCheck
PeriodicHealthCheck ==
  /\ gnPc # "none"
  /\ ~isHealthCheckRunning
  /\ ToProbe # {}
  /\ isHealthCheckRunning' = TRUE
  /\ probes' = ToProbe
  /\ UNCHANGED <<proxyTime, proxyPool, proxyHealth, currentProxyIndex, gnPc,
                 lastReturned, sweptFirst, stayedHealthy, results>>
  /\ UNCHANGED exceptProxy

\* the health record after a probe
Probed(h, success) ==
  IF success
    THEN [h EXCEPT !.isHealthy = TRUE, !.failures = 0]
    ELSE [h EXCEPT !.failures = h.failures + 1, !.lastFailure = proxyTime,
                   !.isHealthy = h.failures + 1 < proxyPool.maxFailures]

\* testProxyConnection of proxy p settles; with the last one the health
\* check ends and a getNextProxy call waiting for it returns
ProbeResult(p, success) ==
  /\ p \in probes
  /\ proxyHealth' = [proxyHealth EXCEPT ![p] = Probed(proxyHealth[p], success)]
  /\ probes' = probes \ {p}
  /\ IF probes' = {}
       THEN /\ isHealthCheckRunning' = FALSE
            /\ IF gnPc = "sweeping"
                 THEN /\ gnPc' = "idle"
                      /\ sweptFirst' = TRUE
                      /\ lastReturned' =
                           IF GetHealthyProxies(proxyHealth') = <<>> THEN Null
                           ELSE GetHealthyProxies(proxyHealth')[1]
                 ELSE UNCHANGED <<gnPc, sweptFirst, lastReturned>>
       ELSE UNCHANGED <<isHealthCheckRunning, gnPc, sweptFirst, lastReturned>>
  /\ stayedHealthy' =
       IF gnPc = "sweeping" /\ gnPc' = "idle"
         THEN lastReturned' \in 1..MaxProxies
         ELSE stayedHealthy /\ proxyHealth'[lastReturned].isHealthy
  /\ UNCHANGED <<proxyTime, proxyPool, currentProxyIndex, results>>
  /\ UNCHANGED exceptProxy

\* the health record after recordProxyResult
Recorded(h, success, responseTime) ==
  IF success
    THEN [h EXCEPT !.totalRequests = h.totalRequests + 1,
                   !.successfulRequests = h.successfulRequests + 1,
                   !.failures = 0,
                   !.avgResponseTime =
                      IF responseTime = 0 THEN h.avgResponseTime
                      ELSE IF h.avgResponseTime = 0 THEN responseTime
                      ELSE (3 * responseTime + 7 * h.avgResponseTime) \div 10]
    ELSE [h EXCEPT !.totalRequests = h.totalRequests + 1,
                   !.failures = h.failures + 1,
                   !.lastFailure = proxyTime,
                   !.isHealthy = h.isHealthy /\ h.failures + 1 < proxyPool.maxFailures]

RecordProxyResult(p, success, responseTime) ==
  /\ p \in DOMAIN proxyHealth
  /\ results < MaxResults
  /\ results' = results + 1
  /\ proxyHealth' = [proxyHealth EXCEPT
                       ![p] = Recorded(proxyHealth[p], success, responseTime)]
  /\ stayedHealthy' = (stayedHealthy /\ proxyHealth'[lastReturned].isHealthy)
  /\ UNCHANGED <<proxyTime, proxyPool, currentProxyIndex, isHealthCheckRunning,
                 probes, gnPc, lastReturned, sweptFirst>>
  /\ UNCHANGED exceptProxy

\* the rotator's clock advances
ProxyTick ==
  /\ proxyTime < MaxProxyTime
  /\ proxyTime' = proxyTime + 1
  /\ UNCHANGED <<proxyPool, proxyHealth, currentProxyIndex, isHealthCheckRunning,
                 probes, gnPc, lastReturned, sweptFirst, stayedHealthy,
                 results>>
  /\ UNCHANGED exceptProxy

\* the pools a rotator is built with
ProxyPools ==
  [proxies : 0..MaxProxies, enabled : BOOLEAN, rotationStrategy : Strategies,
   maxFailures : 1..MaxProxyFailures]

\* -------------------------------------------------------- data processor
\* String.prototype.toUpperCase, a character at a time
ToUpperCase(c) == IF c = "a" THEN "A" ELSE c

\* cleanListingId: id.replace(/[^\w-]/g, '').toUpperCase()
CleanListingId(id) ==
  LET kept == SelectSeq(id, LAMBDA c : c \in WordOrDash)
  IN  [i \in DOMAIN kept |-> ToUpperCase(kept[i])]

\* extractIdFromUrl: `BBS${digits}` for a URL of one of the shapes
ExtractIdFromUrl(url) ==
  IF url.pattern \in UrlPatterns /\ url.digits # NoString
    THEN <<"B", "B", "S">> \o url.digits
    ELSE NoString

\* cleanRawData, as far as validateData looks at what it returns
CleanRawData(raw) ==
  [title |-> raw.title,
   bizBuySellId |-> IF raw.listingId # NoString
                      THEN CleanListingId(raw.listingId)
                    ELSE IF raw.url # NoUrl THEN ExtractIdFromUrl(raw.url)
                    ELSE NoString,
   location |-> raw.location,
   described |-> raw.described]

ValidateData(data) ==
  LET errors == (IF data.title THEN {} ELSE {"Title is required"})
                  \cup (IF data.bizBuySellId # NoString THEN {}
                        ELSE {"Listing ID is required"})
                  \cup (IF data.location THEN {} ELSE {"Location is required"})
  IN  [isValid |-> errors = {},
       errors |-> errors,
       warnings |-> IF data.described THEN {} ELSE Warnings,
       data |-> IF errors = {} THEN data.bizBuySellId ELSE NoString]

\* processListing as a function of the processor's fields: the fields
\* afterwards and the result
Processed(seen, st, raw) ==
  LET counted == [st EXCEPT !.totalProcessed = @ + 1]
      v == ValidateData(CleanRawData(raw))
  IN  IF raw.listingId # NoString /\ raw.listingId \in seen
        THEN [seen |-> seen,
              stats |-> [counted EXCEPT !.duplicates = @ + 1],
              result |-> [success |-> FALSE, errors |-> {DuplicateError},
                          warnings |-> {}, data |-> NoString]]
        ELSE [seen |-> IF v.isValid THEN seen \cup {v.data} ELSE seen,
              stats |-> [counted EXCEPT
                           !.successful = IF v.isValid THEN @ + 1 ELSE @,
                           !.failed = IF v.isValid THEN @ ELSE @ + 1,
                           !.warnings = IF v.warnings # {} THEN @ + 1 ELSE @],
              result |-> [success |-> v.isValid, errors |-> v.errors,
                          warnings |-> v.warnings, data |-> v.data]]

ProcessListing(raw) ==
  /\ stats.totalProcessed < MaxProcessed
  /\ LET p == Processed(seenListingIds, stats, raw)
     IN  /\ seenListingIds' = p.seen
         /\ stats' = p.stats
         /\ returned' = p.result
         /\ successIds' = IF p.result.success
                            THEN Append(successIds, p.result.data)
                            ELSE successIds
  /\ UNCHANGED exceptProcessor

\* the loop of processBatch: the processor's fields and the two lists
\* after the records of raws
RECURSIVE BatchLoop(_, _)
BatchLoop(acc, raws) ==
  IF raws = <<>> THEN acc
  ELSE LET p == Processed(acc.seen, acc.stats, Head(raws))
       IN  BatchLoop(
             [seen |-> p.seen,
              stats |-> p.stats,
              successful |-> IF p.result.success /\ p.result.data # NoString
                               THEN Append(acc.successful, p.result.data)
                               ELSE acc.successful,
              failed |-> IF p.result.success /\ p.result.data # NoString
                           THEN acc.failed
                           ELSE Append(acc.failed, p.result)],
             Tail(raws))

ProcessBatch(raws) ==
  /\ stats.totalProcessed + Len(raws) <= MaxProcessed
  /\ LET done == BatchLoop([seen |-> seenListingIds, stats |-> stats,
                            successful |-> <<>>, failed |-> <<>>], raws)
     IN  /\ seenListingIds' = done.seen
         /\ stats' = done.stats
         /\ successIds' = successIds \o done.successful
         /\ returned' = [successful |-> done.successful, failed |-> done.failed,
                         stats |-> done.stats]
  /\ UNCHANGED exceptProcessor

ResetStats ==
  /\ stats' = ZeroStats
  /\ seenListingIds' = {}
  /\ successIds' = <<>>
  /\ returned' = Void
  /\ UNCHANGED exceptProcessor

\* the raw ids, URLs and records the processor is fed
RECURSIVE StringsUpTo(_)
StringsUpTo(n) ==
  IF n = 0 THEN {NoString}
  ELSE StringsUpTo(n - 1)
         \cup {Append(w, c) : w \in StringsUpTo(n - 1), c \in IdChars}

RawUrls ==
  {NoUrl} \cup {[pattern |-> "/listing/(\\d+)", digits |-> <<"1">>],
                [pattern |-> "other", digits |-> <<"1">>]}

\* a record has a listing id or, lacking one, possibly a URL; it is
\* complete, or lacks its descriptions, its title or its location
RawFields ==
  {[title |-> TRUE, location |-> TRUE, described |-> TRUE],
   [title |-> TRUE, location |-> TRUE, described |-> FALSE],
   [title |-> FALSE, location |-> TRUE, described |-> TRUE],
   [title |-> TRUE, location |-> FALSE, described |-> TRUE]}

RawListings ==
  {[listingId |-> id, url |-> u, title |-> f.title, location |-> f.location,
    described |-> f.described] :
     id \in StringsUpTo(MaxIdLen), u \in RawUrls, f \in RawFields}
    \ {r \in [listingId : StringsUpTo(MaxIdLen), url : RawUrls,
                title : BOOLEAN, location : BOOLEAN, described : BOOLEAN] :
         r.listingId # NoString /\ r.url # NoUrl}

\* ------------------------------------------------------ webhook manager
\* addEndpoint
AddEndpoint(events, limit) ==
  /\ Len(endpoints) < limit
  /\ endpoints' = Append(endpoints,
                         [events |-> events, secret |-> Len(endpoints) + 1,
                          enabled |-> TRUE, failureCount |-> 0])
  /\ UNCHANGED <<wNow, deliveries, deliveryQueue, retryQueue,
                 webhookProcessing, awaiting, readyForRetry, updates>>
  /\ UNCHANGED exceptWebhook

\* updateEndpoint(id, {enabled}): Object.assign on the endpoint
UpdateEndpoint(e, enabled) ==
  /\ e \in DOMAIN endpoints
  /\ updates < MaxUpdates
  /\ updates' = updates + 1
  /\ endpoints' = [endpoints EXCEPT ![e].enabled = enabled]
  /\ UNCHANGED <<wNow, deliveries, deliveryQueue, retryQueue,
                 webhookProcessing, awaiting, readyForRetry>>
  /\ UNCHANGED exceptWebhook

\* Array.prototype.indexOf, counted from 1; 0 when absent
IndexOf(q, d) ==
  IF \E i \in DOMAIN q : q[i] = d
    THEN CHOOSE i \in DOMAIN q : q[i] = d /\ \A k \in 1..(i - 1) : q[k] # d
    ELSE 0

\* Array.prototype.splice(index, 1)
SpliceNothing(q, i) == q

Splice(q, i) == SubSeq(q, 1, i - 1) \o SubSeq(q, i + 1, Len(q))

\* the loop of processRetryQueue up to its next sendWebhook
RECURSIVE RetryLoop(_, _, _, _)
RetryLoop(ready, rq, eps, dl) ==
  IF ready = <<>>
    THEN [ready |-> ready, retryQueue |-> rq, sending |-> NoDelivery]
  ELSE LET index == IndexOf(rq, Head(ready))
       IN  IF index = 0 THEN RetryLoop(Tail(ready), rq, eps, dl)
           ELSE IF Skips(eps, dl, Head(ready))
             THEN RetryLoop(Tail(ready), Splice(rq, index), eps, dl)
           ELSE [ready |-> Tail(ready), retryQueue |-> Splice(rq, index),
                 sending |-> Head(ready)]

\* emitEvent called from outside the job queue; limit caps the deliveries
\* ever created
EmitEvent(type, limit) ==
  /\ RelevantEndpoints(type) # <<>>
  /\ Len(deliveries) + Len(RelevantEndpoints(type)) <= limit
  /\ Emit(type, NoJob)
  /\ UNCHANGED exceptWebhook

\* whether a failed delivery is queued for another attempt
Retries(attempts) == attempts < MAX_RETRY_ATTEMPTS

\* attemptDelivery after its sendWebhook: the 2xx branch and the catch
Settled(d, ok) ==
  LET e == deliveries[d].endpointId
      attempts == deliveries[d].attempts + 1
      failureCount == endpoints[e].failureCount + 1
  IN  IF ok
        THEN [deliveries |-> [deliveries EXCEPT ![d].status = "delivered"],
              endpoints |-> [endpoints EXCEPT ![e].failureCount = 0],
              retryQueue |-> retryQueue]
      ELSE IF Retries(attempts)
        THEN [deliveries |-> [deliveries EXCEPT
                                ![d].attempts = attempts,
                                ![d].status = "retry",
                                ![d].nextRetry = wNow + RETRY_DELAYS[attempts]],
              endpoints |-> [endpoints EXCEPT ![e].failureCount = failureCount],
              retryQueue |-> Append(retryQueue, d)]
      ELSE [deliveries |-> [deliveries EXCEPT ![d].attempts = attempts,
                                               ![d].status = "failed"],
            endpoints |-> [endpoints EXCEPT
                             ![e].failureCount = failureCount,
                             ![e].enabled = IF failureCount > FailureCeiling
                                              THEN FALSE ELSE @],
            retryQueue |-> retryQueue]

\* the sendWebhook processor p awaits settles: attemptDelivery finishes and
\* the processor's loop goes on to its next sendWebhook or to its end
Respond(p, ok) ==
  /\ awaiting[p].delivery # NoDelivery
  /\ LET after == Settled(awaiting[p].delivery, ok)
     IN  /\ deliveries' = after.deliveries
         /\ endpoints' = after.endpoints
         /\ IF p = QueueProcessor
              THEN LET loop == DeliveryLoop(deliveryQueue, after.endpoints,
                                            after.deliveries)
                   IN  /\ deliveryQueue' = loop.deliveryQueue
                       /\ retryQueue' = after.retryQueue
                       /\ webhookProcessing' = (loop.sending # NoDelivery)
                       /\ awaiting' = [awaiting EXCEPT ![p] =
                                         [delivery |-> loop.sending,
                                          mayOutlast |->
                                            loop.sending # NoDelivery]]
                       /\ UNCHANGED readyForRetry
              ELSE LET loop == RetryLoop(readyForRetry[p], after.retryQueue,
                                         after.endpoints, after.deliveries)
                   IN  /\ retryQueue' = loop.retryQueue
                       /\ readyForRetry' = [readyForRetry EXCEPT
                                              ![p] = loop.ready]
                       /\ awaiting' = [awaiting EXCEPT ![p] =
                                         [delivery |-> loop.sending,
                                          mayOutlast |->
                                            loop.sending # NoDelivery]]
                       /\ UNCHANGED <<deliveryQueue, webhookProcessing>>
  /\ UNCHANGED <<wNow, updates>>
  /\ UNCHANGED exceptWebhook

\* the deliveries of the retry queue that are due at time t
Due(t) ==
  SelectSeq(retryQueue, LAMBDA d : deliveries[d].nextRetry # Null
                                     /\ deliveries[d].nextRetry <= t)

Sending == {p \in Processors : awaiting[p].delivery # NoDelivery}

\* The interval of startRetryProcessor fires: processRetryQueue up to its
\* first sendWebhook.  Runs that find nothing due while nothing is being
\* sent change nothing, so the clock moves straight to the next run that
\* is not of that kind.  A send lasts DELIVERY_TIMEOUT at most, which is one
\* period: one begun by a run in the timer's callback is over before the
\* next run, any other is over before the one after.
PeriodsToNextRun ==
  IF Sending # {} \/ retryQueue = <<>> THEN 1
  ELSE CHOOSE n \in 1..(RETRY_DELAYS[MAX_RETRY_ATTEMPTS] \div RetryPeriod + 1) :
         /\ Due(wNow + n * RetryPeriod) # <<>>
         /\ \A k \in 1..(n - 1) : Due(wNow + k * RetryPeriod) = <<>>

RetryTimerFires ==
  /\ wNow + PeriodsToNextRun * RetryPeriod <= MaxWebhookTime
  /\ \A p \in Sending : awaiting[p].mayOutlast
  /\ wNow' = wNow + PeriodsToNextRun * RetryPeriod
  /\ LET loop == RetryLoop(Due(wNow'), retryQueue, endpoints, deliveries)
         outlasting == [p \in Processors |->
                          [awaiting[p] EXCEPT !.mayOutlast = FALSE]]
     IN  IF loop.sending = NoDelivery
           THEN /\ retryQueue' = loop.retryQueue
                /\ awaiting' = outlasting
                /\ UNCHANGED readyForRetry
           ELSE \E r \in RetryRuns :
                  /\ awaiting[r].delivery = NoDelivery
                  /\ \A k \in RetryRuns :
                       awaiting[k].delivery = NoDelivery => r <= k
                  /\ retryQueue' = loop.retryQueue
                  /\ readyForRetry' = [readyForRetry EXCEPT ![r] = loop.ready]
                  /\ awaiting' = [outlasting EXCEPT ![r] =
                                    [delivery |-> loop.sending,
                                     mayOutlast |-> FALSE]]
  /\ UNCHANGED <<endpoints, deliveries, deliveryQueue, webhookProcessing,
                 updates>>
  /\ UNCHANGED exceptWebhook

\* --------------------------------------------------- concurrent scraper
\* scrapeConcurrently up to its Promise.allSettled: `opened` of the
\* maxBrowsers pools initialise, each with maxConcurrency pages, and every
\* filter's executeScrapeJob is added to the p-queue
ScrapeConcurrently(n, maxConcurrency, maxBrowsers, opened) ==
  /\ scPc = "idle"
  /\ opened \in 1..maxBrowsers
  /\ scPc' = "running"
  /\ browserPools' = [b \in 1..opened |-> [pages |-> maxConcurrency,
                                            inUse |-> 0]]
  /\ concurrency' = Min(maxConcurrency, opened * PoolsFactor)
  /\ tasks' = [i \in ScrapeJobs |->
                 IF i <= n THEN [NoTask EXCEPT !.pc = "queued"] ELSE NoTask]
  /\ UNCHANGED exceptScraper

Running == {i \in ScrapeJobs : tasks[i].pc \in {"wait", "sleeping", "scraping"}}

\* the p-queue starts the next executeScrapeJob, which runs up to
\* `await this.globalRateLimiter.wait()`
StartJob(i) ==
  /\ tasks[i].pc = "queued"
  /\ \A k \in 1..(i - 1) : tasks[k].pc # "queued"
  /\ Cardinality(Running) < concurrency
  /\ tasks' = [tasks EXCEPT ![i].pc = "wait"]
  /\ UNCHANGED <<scPc, browserPools, concurrency>>
  /\ UNCHANGED exceptScraper

\* acquirePage's loop: the first pool with inUse < pages.length, 0 if none
FirstFree(pools) ==
  IF \E b \in DOMAIN pools : pools[b].inUse < pools[b].pages
    THEN CHOOSE b \in DOMAIN pools :
           /\ pools[b].inUse < pools[b].pages
           /\ \A k \in 1..(b - 1) : pools[k].inUse >= pools[k].pages
    ELSE 0

\* releasePageFn that leaves the count alone
ReleasePageFnNothing(inUse) == inUse

\* releasePageFn: pool.inUse = Math.max(0, pool.inUse - 1)
ReleasePageFn(inUse) == IF inUse - 1 > 0 THEN inUse - 1 ELSE 0

\* acquirePage, after the rate limiter's wait or after the one-second
\* sleep: the page at index inUse of the first pool with a free count, or
\* another sleep
AcquirePage(i) ==
  /\ tasks[i].pc \in {"wait", "sleeping"}
  /\ LET b == FirstFree(browserPools)
     IN  IF b = 0
           THEN /\ tasks' = [tasks EXCEPT ![i].pc = "sleeping"]
                /\ UNCHANGED browserPools
           ELSE /\ tasks' = [tasks EXCEPT
                               ![i].pc = "scraping",
                               ![i].held = [pool |-> b,
                                            page |-> browserPools[b].inUse],
                               ![i].acquired = @ + 1]
                /\ browserPools' = [browserPools EXCEPT ![b].inUse = @ + 1]
  /\ UNCHANGED <<scPc, concurrency>>
  /\ UNCHANGED exceptScraper

\* scraper.scrape returns or throws: the finally block calls releasePageFn
\* and executeScrapeJob returns the result or the failed result of its catch
ScrapeEnds(i, threw) ==
  /\ tasks[i].pc = "scraping"
  /\ browserPools' = [browserPools EXCEPT
                        ![tasks[i].held.pool].inUse = ReleasePageFn(@)]
  /\ tasks' = [tasks EXCEPT ![i].pc = IF threw THEN "failed" ELSE "returned",
                            ![i].held = NoPage,
                            ![i].released = @ + 1]
  /\ UNCHANGED <<scPc, concurrency>>
  /\ UNCHANGED exceptScraper

JobsSettled == \A i \in ScrapeJobs : tasks[i].pc \in {"none", "returned", "failed"}

\* Promise.allSettled resolves and the results are counted
AllSettled ==
  /\ scPc = "running"
  /\ JobsSettled
  /\ scPc' = "settled"
  /\ UNCHANGED <<browserPools, concurrency, tasks>>
  /\ UNCHANGED exceptScraper

\* cleanupBrowserPools in the finally block
CleanupBrowserPools ==
  /\ scPc = "settled"
  /\ scPc' = "closed"
  /\ browserPools' = <<>>
  /\ UNCHANGED <<concurrency, tasks>>
  /\ UNCHANGED exceptScraper

\* ------------------------------------------------------- specifications
\* addJob's default: options.priority || 'NORMAL'
DefaultPriority == "NORMAL"

\* the queue and its processor; jobs of the default priority, clock standing
\* still
Next ==
  \/ AddJob(DefaultPriority, FALSE)
  \/ PollTimer
  \/ ProcessQueueFind
  \/ ProcessQueueUpdate
  \/ \E j \in JobIds : HandleJobStart(j)
  \/ \E j \in JobIds : HandleProgress(j)
  \/ \E j \in JobIds, success \in BOOLEAN, dbOk \in BOOLEAN :
       CompleteJob(j, success, dbOk)
  \/ \E j \in JobIds : CancelJobFind(j)
  \/ CancelJobUpdate

Spec == Init /\ [][Next]_vars

\* the queue under a running clock, with the reaper
NextTimed ==
  \/ Tick
  \/ AddJob(DefaultPriority, FALSE)
  \/ PollTimer
  \/ ProcessQueueFind
  \/ ProcessQueueUpdate
  \/ \E j \in JobIds : HandleJobStart(j)
  \/ \E j \in JobIds : HandleProgress(j)
  \/ \E j \in JobIds, success \in BOOLEAN : CompleteJob(j, success, TRUE)
  \/ \E j \in JobIds : CancelJobFind(j)
  \/ CancelJobUpdate
  \/ Cleanup

SpecTimed == Init /\ [][NextTimed]_vars

\* submission and dispatch of jobs of every priority under a running clock
NextOrder ==
  \/ Tick
  \/ \E p \in Priorities : AddJob(p, FALSE)
  \/ PollTimer
  \/ ProcessQueueFind
  \/ ProcessQueueUpdate
  \/ \E j \in JobIds : HandleJobStart(j)
  \/ \E j \in JobIds, success \in BOOLEAN : CompleteJob(j, success, TRUE)

SpecOrder == Init /\ [][NextOrder]_vars

\* the queue with the retry request of the jobs route
NextRetry ==
  \/ AddJob(DefaultPriority, FALSE)
  \/ PollTimer
  \/ ProcessQueueFind
  \/ ProcessQueueUpdate
  \/ \E j \in JobIds : HandleJobStart(j)
  \/ \E j \in JobIds, success \in BOOLEAN : CompleteJob(j, success, TRUE)
  \/ \E j \in JobIds : CancelJobFind(j)
  \/ CancelJobUpdate
  \/ \E j \in JobIds : PatchRetryFind(j)
  \/ PatchRetryUpdate

SpecRetry == Init /\ [][NextRetry]_vars

\* one executeWithRetry call over the error messages and the retry policies
NextRetryHandler ==
  \/ \E config \in PolicyConfigs : ExecuteWithRetry(config)
  \/ OperationResolves
  \/ \E error \in ErrorMessages : OperationRejects(error)
  \/ SleepResolves

SpecRetryHandler == Init /\ [][NextRetryHandler]_vars

\* one executeWithRetry call that keeps timing out, over the backoff settings
TimeoutMessage == Msg({"timeout"}, {})

NextBackoff ==
  \/ \E config \in BackoffConfigs : ExecuteWithRetry(config)
  \/ OperationResolves
  \/ OperationRejects(TimeoutMessage)
  \/ SleepResolves

SpecBackoff == Init /\ [][NextBackoff]_vars

\* one circuit breaker and the calls made through it
NextBreaker ==
  \/ \E n \in 1..MaxFailuresLimit : CreateCircuitBreaker(n)
  \/ BreakerTick
  \/ \E c \in CallSlots : Execute(c)
  \/ \E c \in CallSlots : OperationSucceeds(c)
  \/ \E c \in CallSlots : OperationFails(c)

SpecBreaker == Init /\ [][NextBreaker]_vars

\* one rate limiter and its callers
NextLimiter ==
  \/ \E n \in 1..MaxRequestsLimit : NewRateLimiter(n)
  \/ \E c \in Callers : Wait(c)
  \/ \E c \in Callers : WaitResumes(c)
  \/ LimiterTick

SpecLimiter == Init /\ [][NextLimiter]_vars

\* one proxy rotator, its callers and its periodic health check
NextProxy ==
  \/ \E pool \in ProxyPools : NewProxyRotator(pool)
  \/ GetNextProxy
  \/ PeriodicHealthCheck
  \/ \E p \in 1..MaxProxies, success \in BOOLEAN : ProbeResult(p, success)
  \/ \E p \in 1..MaxProxies, success \in BOOLEAN, rt \in {0, ResponseTime} :
       RecordProxyResult(p, success, rt)
  \/ ProxyTick

SpecProxy == Init /\ [][NextProxy]_vars

\* one data processor fed single records and batches of one or two
NextProcessor ==
  \/ \E raw \in RawListings : ProcessListing(raw)
  \/ \E r1 \in RawListings, r2 \in RawListings :
       \/ ProcessBatch(<<r1>>)
       \/ ProcessBatch(<<r1, r2>>)
  \/ ResetStats

SpecProcessor == Init /\ [][NextProcessor]_vars

\* one webhook manager, its callers, its endpoints' answers and its timer
NextWebhook ==
  \/ AddEndpoint({JOB_COMPLETED}, MaxEndpoints)
  \/ \E e \in 1..MaxEndpoints, enabled \in BOOLEAN : UpdateEndpoint(e, enabled)
  \/ EmitEvent(JOB_COMPLETED, MaxDeliveries)
  \/ \E p \in Processors, ok \in BOOLEAN : Respond(p, ok)
  \/ RetryTimerFires

SpecWebhook == Init /\ [][NextWebhook]_vars

\* the same with endpoints that stay enabled and never answer 2xx
NextLadder ==
  \/ AddEndpoint({JOB_COMPLETED}, MaxEndpoints)
  \/ EmitEvent(JOB_COMPLETED, MaxFailingDeliveries)
  \/ \E p \in Processors : Respond(p, FALSE)
  \/ RetryTimerFires

SpecLadder == Init /\ [][NextLadder]_vars

\* the execution of job j, while the job is PROCESSING, ends with completeJob
\* or the reaper fails the job
FinishesOrIsReaped(j) ==
  /\ scrapeJob[j].status = "PROCESSING"
  /\ \/ \E success \in BOOLEAN : CompleteJob(j, success, TRUE)
     \/ Cleanup

\* the queue with the reaper under a running clock: the polling interval
\* keeps firing, the database answers processQueue and handleJob, and every
\* execution of a PROCESSING job finishes unless the job is reaped
NextFair ==
  \/ Tick
  \/ AddJob(DefaultPriority, FALSE)
  \/ PollTimer
  \/ ProcessQueueFind
  \/ ProcessQueueUpdate
  \/ \E j \in JobIds : HandleJobStart(j)
  \/ \E j \in JobIds, success \in BOOLEAN : CompleteJob(j, success, TRUE)
  \/ Cleanup

SpecFair ==
  /\ Init
  /\ [][NextFair]_vars
  /\ WF_vars(PollTimer)
  /\ WF_vars(ProcessQueueFind)
  /\ WF_vars(ProcessQueueUpdate)
  /\ \A j \in JobIds : WF_vars(HandleJobStart(j))
  /\ \A j \in JobIds : WF_vars(FinishesOrIsReaped(j))

\* the queue with the progress updates of the scraper in flight
NextProgress ==
  \/ AddJob(DefaultPriority, FALSE)
  \/ PollTimer
  \/ ProcessQueueFind
  \/ ProcessQueueUpdate
  \/ \E j \in JobIds : HandleJobStart(j)
  \/ \E j \in JobIds : OnProgress(j)
  \/ \E j \in JobIds : ProgressUpdateLands(j)
  \/ \E j \in JobIds, success \in BOOLEAN : CompleteJob(j, success, TRUE)

SpecProgress == Init /\ [][NextProgress]_vars

\* addJob with or without webhooks, for a queue next to a webhook manager
SubmitJob(enableWebhooks) ==
  /\ Cardinality(Created) < MaxNotifiedJobs
  /\ AddJob(DefaultPriority, enableWebhooks)

\* the job queue of SpecRetry with a webhook manager, its endpoints and
\* their answers
NextNotify ==
  \/ \E events \in Subscriptions : AddEndpoint(events, MaxSubscribers)
  \/ \E e \in 1..MaxSubscribers : UpdateEndpoint(e, FALSE)
  \/ \E enableWebhooks \in BOOLEAN : SubmitJob(enableWebhooks)
  \/ PollTimer
  \/ ProcessQueueFind
  \/ ProcessQueueUpdate
  \/ \E j \in 1..MaxNotifiedJobs :
       \/ HandleJobStart(j)
       \/ \E success \in BOOLEAN : CompleteJob(j, success, TRUE)
       \/ CancelJobFind(j)
       \/ PatchRetryFind(j)
  \/ CancelJobUpdate
  \/ PatchRetryUpdate
  \/ \E p \in Processors, ok \in BOOLEAN : Respond(p, ok)

\* one queue slot is enough for one job
InitNotify == Init /\ maxConcurrentJobs = 1

SpecNotify == InitNotify /\ [][NextNotify]_vars

\* one scrapeConcurrently call and its jobs
NextScraper ==
  \/ \E n \in ScrapeJobs, maxConcurrency \in 1..MaxConcurrency,
        maxBrowsers \in 1..MaxBrowsers, opened \in 1..MaxBrowsers :
       ScrapeConcurrently(n, maxConcurrency, maxBrowsers, opened)
  \/ \E i \in ScrapeJobs :
       \/ StartJob(i)
       \/ AcquirePage(i)
       \/ \E threw \in BOOLEAN : ScrapeEnds(i, threw)
  \/ AllSettled
  \/ CleanupBrowserPools

SpecScraper == Init /\ [][NextScraper]_vars

TypeOK ==
  /\ now \in 0..MaxTime
  /\ maxConcurrentJobs \in 1..MaxCap
  /\ scrapeJob \in [JobIds -> [status : Statuses \cup {Absent},
                               priority : Priorities,
                               createdAt : {Null} \cup 0..MaxTime,
                               startedAt : {Null} \cup 0..MaxTime,
                               updatedAt : {Null} \cup 0..MaxTime,
                               error : {ErrNone, ErrStalled, ErrExec},
                               progress : 0..100,
                               enableWebhooks : BOOLEAN]]
  /\ processing \in BOOLEAN
  /\ currentJobs \subseteq JobIds
  /\ pqPc \in {"idle", "find", "update"}
  /\ nextJob \in JobIds \cup {NoJob}
  /\ cancelPc \in {"idle", "update", "true", "false"}
  /\ cancelId \in JobIds \cup {NoJob}
  /\ patchPc \in {"idle", "update"}
  /\ patchId \in JobIds \cup {NoJob}
  /\ retries \in 0..MaxRetries
  /\ cancels \in 0..MaxCancels
  /\ rPc \in {"idle", "operation", "sleep", "done"}
  /\ attempt \in 0..MaxRetryLimit + 1
  /\ lastError \in ErrorMessages \cup {NoError}
  /\ result.attempts \in 0..MaxRetryLimit + 1
  /\ invocations \in 0..MaxRetryLimit + 1
  /\ onRetryCalls \in 0..MaxRetryLimit
  /\ sleeps \in 0..MaxRetryLimit
  /\ thrown \subseteq ErrorMessages
  /\ delay \in 0..finalConfig.maxDelay
  /\ clock \in 0..MaxClock
  /\ maxFailures \in {Null} \cup 1..MaxFailuresLimit
  /\ failures \in 0..MaxFailuresLimit + MaxCalls
  /\ lastFailureTime \in 0..MaxClock
  /\ state \in {"closed", "open", "half-open"}
  /\ inflight \in [CallSlots -> BOOLEAN]
  /\ trial \in CallSlots \cup {NoCall}
  /\ consecutive \in 0..MaxFailuresLimit + 1
  /\ lastCall \in {"none", "rejected", "invoked"}
  /\ limiterTime \in 0..MaxLimiterTime
  /\ maxRequests \in {Null} \cup 1..MaxRequestsLimit
  /\ requests \in Seq(0..MaxLimiterTime)
  /\ waiters \in [Callers -> [pc : {"idle", "sleeping"},
                              now : 0..MaxLimiterTime,
                              wakeAt : 0..MaxLimiterTime + WindowMs]]
  /\ returns \in Seq(0..MaxLimiterTime)
  /\ waitCalls \in 0..MaxWaits
  /\ proxyTime \in 0..MaxProxyTime
  /\ proxyPool.proxies \in 0..MaxProxies
  /\ proxyPool.rotationStrategy \in Strategies
  /\ proxyPool.maxFailures \in 1..MaxProxyFailures
  /\ DOMAIN proxyHealth = 1..proxyPool.proxies
  /\ \A p \in DOMAIN proxyHealth :
       /\ proxyHealth[p].isHealthy \in BOOLEAN
       /\ proxyHealth[p].failures \in Nat
       /\ proxyHealth[p].lastFailure \in {Null} \cup 0..MaxProxyTime
       /\ proxyHealth[p].avgResponseTime \in {0, ResponseTime}
       /\ proxyHealth[p].successfulRequests <= proxyHealth[p].totalRequests
       /\ proxyHealth[p].totalRequests \in 0..MaxResults
  /\ currentProxyIndex \in 0..MaxProxies
  /\ isHealthCheckRunning \in BOOLEAN
  /\ probes \subseteq DOMAIN proxyHealth
  /\ gnPc \in {"none", "idle", "sweeping"}
  /\ lastReturned \in {Null, NoProxy} \cup 1..MaxProxies
  /\ sweptFirst \in BOOLEAN
  /\ stayedHealthy \in BOOLEAN
  /\ seenListingIds \subseteq Seq({"A", "B", "S", "1"})
  /\ \A k \in DOMAIN stats : stats[k] \in 0..MaxProcessed
  /\ DOMAIN stats = DOMAIN ZeroStats
  /\ \A i \in DOMAIN successIds : successIds[i] \in seenListingIds
  /\ wNow \in 0..MaxWebhookTime
  /\ \A e \in DOMAIN endpoints :
       /\ endpoints[e].enabled \in BOOLEAN
       /\ endpoints[e].failureCount \in Nat
       /\ endpoints[e].events \subseteq EventTypes
       /\ endpoints[e].secret = e
  /\ \A d \in DOMAIN deliveries :
       /\ deliveries[d].endpointId \in DOMAIN endpoints
       /\ deliveries[d].event \in EventTypes
       /\ deliveries[d].payload.type = deliveries[d].event
       /\ deliveries[d].payload.data \in JobIds \cup {NoJob}
       /\ deliveries[d].status \in DeliveryStatuses
       /\ deliveries[d].attempts \in Nat
       /\ deliveries[d].nextRetry \in {Null} \cup Nat
  /\ \A i \in DOMAIN deliveryQueue : deliveryQueue[i] \in DOMAIN deliveries
  /\ \A i \in DOMAIN retryQueue : retryQueue[i] \in DOMAIN deliveries
  /\ webhookProcessing = (awaiting[QueueProcessor].delivery # NoDelivery)
  /\ \A p \in Processors :
       awaiting[p].delivery \in {NoDelivery} \cup DOMAIN deliveries
  /\ \A r \in RetryRuns :
       awaiting[r].delivery = NoDelivery => readyForRetry[r] = <<>>
  /\ updates \in 0..MaxUpdates
  /\ \/ returned = Void
     \/ "success" \in DOMAIN returned /\ returned.success \in BOOLEAN
     \/ /\ "successful" \in DOMAIN returned
        /\ Len(returned.successful) + Len(returned.failed) <= MaxProcessed
  /\ results \in 0..MaxResults
  /\ scPc \in {"idle", "running", "settled", "closed"}
  /\ \A b \in DOMAIN browserPools :
       /\ browserPools[b].pages \in 1..MaxConcurrency
       /\ browserPools[b].inUse \in Nat
  /\ concurrency \in 0..MaxConcurrency
  /\ \A i \in ScrapeJobs :
       /\ tasks[i].pc \in {"none", "queued", "wait", "sleeping", "scraping",
                            "returned", "failed"}
       /\ tasks[i].held.pool \in {0} \cup DOMAIN browserPools

Terminal == {"COMPLETED", "FAILED", "CANCELLED"}

\* ----------------------------------------------------------------- C1
\* C1: in every reachable state the number of jobs whose status is
\* PROCESSING is at most maxConcurrentJobs.
ConcurrencyCap ==
  Cardinality(WithStatus("PROCESSING")) <= maxConcurrentJobs

\* the cap binds: it is reached while a job waits PENDING and a cancelled
\* job's execution is still running
CapReachedWithBacklog ==
  /\ Cardinality(WithStatus("PROCESSING")) = maxConcurrentJobs
  /\ WithStatus("PENDING") # {}
  /\ pqPc = "idle"
  /\ \E j \in WithStatus("CANCELLED") : ExecCount(j) > 0

\* ----------------------------------------------------------------- C2
\* j is PENDING, no PENDING job has a higher priority tier, and no PENDING
\* job of j's tier was created earlier
BestPending(j) ==
  /\ scrapeJob[j].status = "PENDING"
  /\ \A k \in WithStatus("PENDING") :
       /\ ~(scrapeJob[k].priority = "HIGH" /\ scrapeJob[j].priority # "HIGH")
       /\ ~(scrapeJob[k].priority = "NORMAL" /\ scrapeJob[j].priority = "LOW")
       /\ scrapeJob[k].priority = scrapeJob[j].priority
            => scrapeJob[j].createdAt <= scrapeJob[k].createdAt

SingleOwner == \A j \in JobIds : ExecCount(j) <= 1

\* ----------------------------------------------------------------- C4
\* C4: a job the reaper has force-failed no longer occupies a concurrency
\* slot: it is not in the set of current jobs.
ReapedJobFreesSlot ==
  \A j \in JobIds :
    (scrapeJob[j].status = "FAILED" /\ scrapeJob[j].error = ErrStalled)
      => j \notin currentJobs

\* ----------------------------------------------------------------- C5
\* C5: the reaper fails a PROCESSING job if and only if the job's last
\* update is older than the stall timeout.
StallCriterion ==
  [][Cleanup =>
       \A j \in WithStatus("PROCESSING") :
         (scrapeJob'[j].status = "FAILED")
           <=> (scrapeJob[j].updatedAt < now - StallTimeout)]_vars

\* ----------------------------------------------------------------- C6
\* C6: whenever handleJob's catch path calls completeJob with success =
\* false, the job ends FAILED with an error and leaves the set of current
\* jobs, even if the update inside completeJob fails.
FailureReleasesSlot ==
  [][\A j \in JobIds :
       (execs[j]["caught"] > 0 /\ \E dbOk \in BOOLEAN : CompleteJob(j, FALSE, dbOk))
         => /\ scrapeJob'[j].status = "FAILED"
            /\ scrapeJob'[j].error # ErrNone
            /\ j \notin currentJobs']_vars

\* ----------------------------------------------------------------- C7
\* C7: a job is moved to PROCESSING only if it is PENDING at the moment of
\* the transition.
ClaimOnlyPending ==
  [][\A j \in JobIds :
       (scrapeJob'[j].status = "PROCESSING" /\ scrapeJob[j].status # "PROCESSING")
         => scrapeJob[j].status = "PENDING"]_vars

\* ----------------------------------------------------------------- C8
\* C8: once a job is CANCELLED, the execution's completeJob does not
\* overwrite its status.
CancelledNotOverwritten ==
  [][\A j \in JobIds, success \in BOOLEAN :
       (scrapeJob[j].status = "CANCELLED" /\ CompleteJob(j, success, TRUE))
         => scrapeJob'[j].status = "CANCELLED"]_vars

\* ----------------------------------------------------------------- C9
\* C9: no status goes from PROCESSING back to PENDING, and a job leaves
\* COMPLETED, FAILED or CANCELLED only through the retry request on it.
MonotonicStatus ==
  [][\A j \in JobIds :
       /\ ~(scrapeJob[j].status = "PROCESSING" /\ scrapeJob'[j].status = "PENDING")
       /\ (scrapeJob[j].status \in Terminal
             /\ scrapeJob'[j].status # scrapeJob[j].status)
            => (PatchRetryUpdate /\ patchId = j)]_vars

RetryableTypes == {"network", "timeout", "rate_limited", "unknown"}

RetryBound ==
  /\ [](rPc = "done" /\ ~result.success
          /\ (\A e \in thrown : ClassifyError(e) \in RetryableTypes)
        => invocations = finalConfig.maxRetries + 1)
  /\ [][/\ \A e \in ErrorMessages :
             OperationRejects(e) /\ rPc' = "done"
             => ~result'.success /\ result'.error = e
        /\ OperationResolves => rPc' = "done" /\ result'.success
        /\ rPc = "done" => invocations' = invocations]_vars

RetriesExhausted ==
  /\ rPc = "done" /\ ~result.success
  /\ finalConfig.maxRetries >= 2
  /\ invocations = finalConfig.maxRetries + 1
  /\ Cardinality(thrown) >= 2
  /\ \A e \in thrown : ClassifyError(e) \in RetryableTypes

\* ---------------------------------------------------------------- C12
\* C12: when the first error the operation throws is of type captcha,
\* blocked or parsing, the call ends there: failure with that error, one
\* invocation, no onRetry and no sleep, whatever maxRetries and the
\* retryableErrors list are.
NonRetryableTypes == {"captcha", "blocked", "parsing"}

NonRetryableTerminal ==
  [][\A e \in ErrorMessages :
       OperationRejects(e) /\ invocations = 0
         /\ ClassifyError(e) \in NonRetryableTypes
       => /\ rPc' = "done"
          /\ ~result'.success /\ result'.error = e
          /\ invocations' = 1 /\ onRetryCalls' = 0 /\ sleeps' = 0]_vars

\* ---------------------------------------------------------------- C13
\* C13: an error whose message signals rate limiting ('rate limit', 'too
\* many requests' or '429', and nothing else classifyError looks for) is
\* classified rate_limited and, while retries remain, retried.
RateLimitFragments == {"rate limit", "too many requests", "429"}

RateLimitRetried ==
  [][\A e \in ErrorMessages :
       OperationRejects(e) /\ e.lower # {} /\ e.lower \subseteq RateLimitFragments
         /\ attempt <= finalConfig.maxRetries
       => ClassifyError(e) = "rate_limited" /\ rPc' = "sleep"]_vars

\* ---------------------------------------------------------------- C14
\* C14: the attempts field of the result equals the number of times the
\* operation was invoked, on success and on failure.
AttemptsTruthful == rPc = "done" => result.attempts = invocations

\* ---------------------------------------------------------------- C15
\* C15 as stated: the delay before retry k is min(baseDelay *
\* backoffMultiplier^k + jitter, maxDelay) with 0 <= jitter <= 10% of the
\* exponential term, never above maxDelay, and the exponential terms of
\* successive retries are strictly increasing.
DelayFormula(k) ==
  LET e == finalConfig.baseDelay * Pow(finalConfig.backoffMultiplier, k)
  IN  /\ \E j \in 0..e : 10 * j <= e /\ delay' = Min(e + j, finalConfig.maxDelay)
      /\ delay' <= finalConfig.maxDelay

TermGrows(k) ==
  k >= 1 => finalConfig.baseDelay * Pow(finalConfig.backoffMultiplier, k - 1)
            < finalConfig.baseDelay * Pow(finalConfig.backoffMultiplier, k)

TripAndFastFail ==
  [][\A c \in CallSlots :
       /\ OperationFails(c) /\ consecutive' >= maxFailures => state' = "open"
       /\ Execute(c) /\ state = "open"
            /\ clock - lastFailureTime <= ResetTimeout
          => ~inflight'[c] /\ lastCall' = "rejected"]_vars

\* ---------------------------------------------------------------- C17
\* C17: a successful call on a closed breaker sets the failure counter to
\* zero, and a closed breaker opens only at the maxFailures-th failure in a
\* row.
SuccessResetsCounter ==
  [][\A c \in CallSlots :
       /\ OperationSucceeds(c) /\ state = "closed" => failures' = 0
       /\ OperationFails(c) /\ state = "closed" /\ state' = "open"
          => consecutive' >= maxFailures]_vars

\* ---------------------------------------------------------------- C18
\* C18: while the trial call of a half-open breaker is in flight, every
\* other call is rejected without invoking the operation.
SingleTrial ==
  [][\A c \in CallSlots :
       Execute(c) /\ trial # NoCall /\ inflight[trial]
       => ~inflight'[c]]_vars

\* ---------------------------------------------------------------- C19
\* C19: when the trial call of a half-open breaker fails, the breaker is
\* open afterwards, for every maxFailures >= 1.
TrialFailureReopens ==
  [][\A c \in CallSlots :
       OperationFails(c) /\ c = trial /\ state = "half-open"
       => state' = "open"]_vars

\* ---------------------------------------------------------------- C20
\* C20: when the trial call made in half-open succeeds, the breaker is
\* closed and its failure counter zero afterwards.
TrialSuccessCloses ==
  [][\A c \in CallSlots :
       OperationSucceeds(c) /\ c = trial
       => state' = "closed" /\ failures' = 0]_vars

\* ---------------------------------------------------------------- C21
\* C21: at most maxRequests calls of wait() return within any time window
\* of length windowMs, and the timestamp a suspended caller records is the
\* time at which it is released.
ReturnsIn(t) ==
  Cardinality({i \in DOMAIN returns : t <= returns[i] /\ returns[i] < t + WindowMs})

WindowBound ==
  /\ [](maxRequests # Null
        => \A t \in 0..MaxLimiterTime : ReturnsIn(t) <= maxRequests)
  /\ [][\A c \in Callers :
          WaitResumes(c) => requests'[Len(requests')] = limiterTime]_vars

\* C22: a proxy that was marked unhealthy becomes selectable again only by
\* a probe of the health check that succeeds; neither a failed probe nor a
\* recorded success makes it healthy.
ReselectableOnlyByGoodProbe ==
  [][\A p \in DOMAIN proxyHealth :
       ~proxyHealth[p].isHealthy /\ proxyHealth'[p].isHealthy
         => ProbeResult(p, TRUE)]_vars

\* a call of getNextProxy returns in this step
GetNextProxyReturns ==
  \/ GetNextProxy /\ gnPc' = "idle"
  \/ gnPc = "sweeping" /\ gnPc' = "idle"

\* C23: getNextProxy returns only proxies that are healthy at the return,
\* returns null for a disabled or empty pool, and returns null for an enabled
\* non-empty pool only after a health check it ran itself has completed.
HealthyOrSweptNull ==
  [][GetNextProxyReturns =>
       /\ lastReturned' # Null => proxyHealth'[lastReturned'].isHealthy
       /\ ~proxyPool.enabled \/ proxyPool.proxies = 0 => lastReturned' = Null
       /\ proxyPool.enabled /\ proxyPool.proxies > 0 /\ lastReturned' = Null
            => sweptFirst']_vars

\* C24: under the sticky strategy a call returns the proxy the previous call
\* returned whenever that proxy has been healthy ever since.
StickyKeepsProxy ==
  [][GetNextProxyReturns /\ proxyPool.rotationStrategy = "sticky"
       /\ stayedHealthy
       => lastReturned' = lastReturned]_vars

\* C25: between two resetStats calls no two successful results carry the
\* same bizBuySellId.
DedupInvariant ==
  \A i, j \in DOMAIN successIds : i # j => successIds[i] # successIds[j]

\* C26: a batch of the same valid record twice returns one successful
\* entry and one failed result marked as a duplicate; the second processing
\* adds one to totalProcessed and to duplicates and leaves the other counts
\* and the seen set as the first left them.
DuplicateOutcome ==
  [][\A raw \in RawListings :
       LET first == Processed(seenListingIds, stats, raw)
       IN  ProcessBatch(<<raw, raw>>) /\ first.result.success
             => /\ Len(returned'.successful) = 1
                /\ Len(returned'.failed) = 1
                /\ returned'.failed[1].errors = {DuplicateError}
                /\ stats' = [first.stats EXCEPT !.totalProcessed = @ + 1,
                                                !.duplicates = @ + 1]
                /\ seenListingIds' = first.seen]_vars

\* C27: every webhook delivery has at most MAX_RETRY_ATTEMPTS attempts.
AttemptBound ==
  \A d \in DOMAIN deliveries : deliveries[d].attempts <= MAX_RETRY_ATTEMPTS

AttemptsExhausted ==
  \E d \in DOMAIN deliveries :
    /\ deliveries[d].attempts = MAX_RETRY_ATTEMPTS
    /\ deliveries[d].status = "failed"

\* C28: with endpoints that stay enabled and never answer 2xx, the k-th
\* failed attempt of a delivery (k < 5) leaves it in status retry with
\* nextRetry = the time of the failure + the k-th delay of the ladder, the
\* fifth leaves it failed; a delivery is sent only while pending or in
\* status retry, and in status retry not before its nextRetry.
RetryLadder ==
  [][/\ \A p \in Processors :
          Respond(p, FALSE) =>
            LET d == awaiting[p].delivery
                k == deliveries'[d].attempts
            IN  /\ k = deliveries[d].attempts + 1
                /\ k < MAX_RETRY_ATTEMPTS =>
                     /\ deliveries'[d].status = "retry"
                     /\ deliveries'[d].nextRetry = wNow + RETRY_DELAYS[k]
                /\ k >= MAX_RETRY_ATTEMPTS =>
                     /\ k = MAX_RETRY_ATTEMPTS
                     /\ deliveries'[d].status = "failed"
     /\ \A p \in Processors, d \in DOMAIN deliveries' :
          awaiting'[p].delivery = d /\ awaiting[p].delivery # d =>
            /\ deliveries'[d].status \in {"pending", "retry"}
            /\ deliveries'[d].status = "retry" =>
                 deliveries'[d].nextRetry <= wNow']_vars

\* C29: no enabled endpoint has a failureCount above the ceiling once a
\* delivery attempt has finished.
DisabledAboveCeiling ==
  \A e \in DOMAIN endpoints :
    endpoints[e].enabled => endpoints[e].failureCount <= FailureCeiling

\* C30: an endpoint's failureCount goes up, by one, only in a step in which
\* one of its deliveries becomes failed, and a 2xx answer to one of its
\* deliveries sets it to zero.
FailureCountPerExhaustion ==
  [][\A e \in DOMAIN endpoints :
       /\ endpoints'[e].failureCount > endpoints[e].failureCount =>
            /\ endpoints'[e].failureCount = endpoints[e].failureCount + 1
            /\ \E d \in DOMAIN deliveries :
                 /\ deliveries[d].endpointId = e
                 /\ deliveries[d].status # "failed"
                 /\ deliveries'[d].status = "failed"
       /\ \A p \in Processors :
            /\ Respond(p, TRUE)
            /\ deliveries[awaiting[p].delivery].endpointId = e
            => endpoints'[e].failureCount = 0]_vars

\* C40: whenever the processing flag is false the delivery queue is empty;
\* the loop of processDeliveryQueue takes a delivery only from the queue,
\* out of it, before any attempt on it, and only when no loop was running
\* or as the running loop's next turn; no delivery is queued twice.
SingleDrain ==
  [][/\ ~webhookProcessing' => deliveryQueue' = <<>>
     /\ \A i, j \in DOMAIN deliveryQueue' :
          i # j => deliveryQueue'[i] # deliveryQueue'[j]
     /\ \A d \in DOMAIN deliveries' :
          awaiting'[QueueProcessor].delivery = d
            /\ awaiting[QueueProcessor].delivery # d
          => /\ webhookProcessing => \E ok \in BOOLEAN :
                                       Respond(QueueProcessor, ok)
             /\ \A i \in DOMAIN deliveryQueue' : deliveryQueue'[i] # d
             /\ \/ \E i \in DOMAIN deliveryQueue : deliveryQueue[i] = d
                \/ d \notin DOMAIN deliveries
             /\ deliveries'[d].status = "pending"
             /\ deliveries'[d].attempts = 0]_vars

EmitDuringDrain ==
  /\ webhookProcessing
  /\ deliveryQueue # <<>>
  /\ awaiting[QueueProcessor].delivery # NoDelivery

\* C39: no delivery is left pending or in status retry outside both queues:
\* one that is neither delivered nor failed is in the delivery queue, in the
\* retry queue, or in the hands of a running attempt or retry run.
InHand(d) ==
  \E p \in Processors :
    \/ awaiting[p].delivery = d
    \/ p \in RetryRuns /\ \E i \in DOMAIN readyForRetry[p] :
                             readyForRetry[p][i] = d

NoDeliveryDropped ==
  \A d \in DOMAIN deliveries :
    deliveries[d].status \in {"pending", "retry"} =>
      \/ \E i \in DOMAIN deliveryQueue : deliveryQueue[i] = d
      \/ \E i \in DOMAIN retryQueue : retryQueue[i] = d
      \/ InHand(d)

\* C31: the deliveries one step creates are those of one emitEvent call:
\* they carry one event type and one job, each is pending and queued or
\* being sent, and every endpoint gets exactly one if it is enabled and
\* subscribed to the type at that moment and none otherwise; a completeJob
\* with success for a job with webhooks enabled makes that call with
\* job.completed; and job.completed deliveries for a job are created only in
\* the step in which the job becomes COMPLETED.
Created31 == {d \in DOMAIN deliveries' : d \notin DOMAIN deliveries}

OneDeliveryPerSubscriber ==
  [][/\ \A d \in Created31 :
          LET type == deliveries'[d].event
          IN  /\ \A c \in Created31 :
                   deliveries'[c].payload = deliveries'[d].payload
              /\ deliveries'[d].status = "pending"
              /\ \/ \E i \in DOMAIN deliveryQueue' : deliveryQueue'[i] = d
                 \/ awaiting'[QueueProcessor].delivery = d
              /\ \A e \in DOMAIN endpoints :
                   Cardinality({c \in Created31 :
                                  deliveries'[c].endpointId = e})
                     = IF endpoints[e].enabled /\ type \in endpoints[e].events
                         THEN 1 ELSE 0
     /\ \A j \in JobIds :
          /\ CompleteJob(j, TRUE, TRUE)
          /\ scrapeJob[j].enableWebhooks
          /\ RelevantEndpoints(JOB_COMPLETED) # <<>>
          => \E d \in Created31 :
               deliveries'[d].payload = [type |-> JOB_COMPLETED, data |-> j]
     /\ \A d \in Created31 :
          deliveries'[d].event = JOB_COMPLETED =>
            /\ scrapeJob[deliveries'[d].payload.data].status # "COMPLETED"
            /\ scrapeJob'[deliveries'[d].payload.data].status = "COMPLETED"]_vars

\* C32: validateSignature(payload, signature, secret) is true exactly when
\* signature is 'sha256=' followed by the hex HMAC-SHA256 of the payload
\* under the secret, and the signature header of every request being sent
\* is that value for the request's own body and its endpoint's secret.
SignatureScheme ==
  /\ \A d \in DOMAIN deliveries, c \in DOMAIN deliveries, e \in DOMAIN endpoints :
       LET payload == Stringify(deliveries[d].payload)
           signature == deliveries[c].signature
           secret == endpoints[e].secret
       IN  ValidateSignature(payload, signature, secret)
             <=> signature = <<"sha256=", HmacSha256Hex(secret, payload)>>
  /\ \A p \in Processors :
       awaiting[p].delivery # NoDelivery =>
         LET delivery == deliveries[awaiting[p].delivery]
             endpoint == endpoints[delivery.endpointId]
             request == SendWebhook(endpoint, delivery)
         IN  /\ request.body = Stringify(delivery.payload)
             /\ request.signature256
                  = <<"sha256=", HmacSha256Hex(endpoint.secret, request.body)>>
             /\ ValidateSignature(request.body, request.signature256,
                                  endpoint.secret)

SignedRequestInFlight ==
  \E p \in Processors, c \in DOMAIN deliveries, e \in DOMAIN endpoints :
    /\ awaiting[p].delivery # NoDelivery
    /\ deliveries[c].payload # deliveries[awaiting[p].delivery].payload
    /\ deliveries[c].endpointId = deliveries[awaiting[p].delivery].endpointId
    /\ e # deliveries[c].endpointId
    /\ ~ValidateSignature(Stringify(deliveries[awaiting[p].delivery].payload),
                          deliveries[c].signature,
                          endpoints[deliveries[c].endpointId].secret)

NoSharedPage ==
  \A i \in ScrapeJobs, k \in ScrapeJobs :
    /\ i # k
    /\ tasks[i].pc = "scraping"
    /\ tasks[k].pc = "scraping"
    => tasks[i].held # tasks[k].held

\* C35: each executeScrapeJob call that acquired a page releases it once,
\* when its scrape returns or throws, and never otherwise; every pool's inUse
\* stays within 0..pages.length and is 0 once all jobs have settled.
ReleasedExactlyOnce ==
  /\ \A b \in DOMAIN browserPools :
       /\ browserPools[b].inUse \in 0..browserPools[b].pages
       /\ JobsSettled => browserPools[b].inUse = 0
  /\ \A i \in ScrapeJobs :
       /\ tasks[i].acquired <= 1
       /\ tasks[i].released
            = IF tasks[i].pc \in {"returned", "failed"} THEN tasks[i].acquired
              ELSE 0
       /\ tasks[i].pc \in {"returned", "failed"} => tasks[i].acquired = 1

AllReleasedAfterThrow ==
  /\ scPc = "settled"
  /\ \E i \in ScrapeJobs : tasks[i].pc = "failed"
  /\ \E i \in ScrapeJobs : tasks[i].pc = "returned"
  /\ \A i \in ScrapeJobs : tasks[i].pc # "none"
  /\ \A b \in DOMAIN browserPools : browserPools[b].inUse = 0

\* C36: the number of handleJob executions in flight never exceeds
\* maxConcurrentJobs.
RECURSIVE ExecutionsUpTo(_)
ExecutionsUpTo(j) == IF j = 0 THEN 0 ELSE ExecCount(j) + ExecutionsUpTo(j - 1)

ExecutionsWithinCap == ExecutionsUpTo(MaxJobs) <= maxConcurrentJobs

DispatchLiveness ==
  \A j \in JobIds :
    (scrapeJob[j].status = "PENDING") ~> (scrapeJob[j].status # "PENDING")

====
